---- MODULE Spec2Model ----
(***************************************************************************)
(* The rock-paper-scissors contract of src/rock-paper-scissors: the keyed  *)
(* match store GAME, the admin cell ADMIN, the blacklist HOOKS, and the    *)
(* entry points instantiate / execute.  One message is one step: the chain *)
(* runs a message to completion, commits its writes only when the handler  *)
(* returns Ok, and hands the response back before the next message runs.   *)
(***************************************************************************)
EXTENDS Integers, Sequences, FiniteSets, TLC

\* GAME, ADMIN, HOOKS, STATE_ITEM: the contract's storage (state.rs).
\* reply: the message just executed and the response on its way back to
\* the caller; the contract itself keeps no memory of it.  Its fields
\* updated and replaced are history: the record a respond wrote before it
\* removed it, and the record a start found at its key and overwrote.
\* rock-paper-scissors: its three stores, its owner item, the last response
VARIABLES GAME, ADMIN, HOOKS, STATE_ITEM, reply
\* simple-option: its STATE item, env.block.height, the last response
VARIABLES OPTION_STATE, height, option_reply
\* cw20-pot: its config item, its pot counter, its pots, the last response
VARIABLES CONFIG, POT_SEQ, POTS, pot_reply
\* cw20-pot, seen from the token contract: per pot, the amounts reported to
\* it and the amounts its Transfer messages asked for, summed over the run
VARIABLES ledger

rps_vars == <<GAME, ADMIN, HOOKS, STATE_ITEM, reply>>
option_vars == <<OPTION_STATE, height, option_reply>>
pot_vars == <<CONFIG, POT_SEQ, POTS, pot_reply, ledger>>

vars == <<GAME, ADMIN, HOOKS, STATE_ITEM, reply,
          OPTION_STATE, height, option_reply,
          CONFIG, POT_SEQ, POTS, pot_reply, ledger>>

storage == <<GAME, ADMIN, HOOKS, STATE_ITEM>>

\* the value of reply while no response is on its way: the next message
\* can run.  Every reply is a record of this shape; the fields stand in
\* the order of their first appearance in this module, the order in which
\* TLC keeps a record, so that workers sharing this value never reorder it.
NoReply ==
    [sender  |-> "",
     msg     |-> [type |-> "none", addr |-> "", move |-> ""],
     resp    |-> [addr |-> "", status |-> "Ok", error |-> "",
                  attributes |-> <<>>],
     updated |-> <<>>,
     replaced |-> <<>>]

\* the shape of option_reply: the request (sender, msg, funds, the block
\* height it ran at) and the response of simple-option
NoOptionReply ==
    [sender |-> "",
     msg    |-> [type |-> "none", addr |-> ""],
     resp   |-> [status |-> "Ok", error |-> "", attributes |-> <<>>,
                 messages |-> <<>>, offer |-> <<>>],
     funds  |-> <<>>,
     at     |-> 0]

\* Coin, and coins(amount, denom): the Vec<Coin> of that one coin
Coin(denom, amount) == [denom |-> denom, amount |-> amount]
coins(amount, denom) == << Coin(denom, amount) >>

\* the shape of pot_reply: the request (sender, msg) and the response of
\* cw20-pot; payload is the ReceiveMsg the attached binary parses to
NoPotReply ==
    [sender |-> "",
     msg    |-> [type |-> "none", addr |-> "", amount |-> 0,
                 threshold |-> 0, payload |-> <<>>],
     resp   |-> [status |-> "Ok", error |-> "", attributes |-> <<>>,
                 messages |-> <<>>]]

(***************************************************************************)
(* Bounds of the model.                                                    *)
(***************************************************************************)
\* at most this many entries are stored at the same time: open matches
\* plus blacklisted identities
MaxEntries == 2
\* simple-option: block heights run from 0 to MaxHeight
MaxHeight == 3
\* cw20-pot: at most MaxPots pots are created
MaxPots == 2
\* cw20-pot: Uint128 scaled down, its values are 0 .. Uint128Max
Uint128Max == 3

(***************************************************************************)
(* Values.                                                                 *)
(***************************************************************************)
\* Option<T>: None is the empty sequence, Some(x) the one-element sequence
None == <<>>
Some(x) == <<x>>
IsSome(o) == o # <<>>
Unwrap(o) == o[1]

\* identities the address validator accepts; info.sender is always one
ValidAddrs == {"creator", "someone", "elona_musk"}
\* a string the address validator rejects
InvalidAddr == "xx"
\* the strings a message can carry where it names an identity
AddrStrings == ValidAddrs \cup {InvalidAddr}

GameMove == {"Rock", "Paper", "Scissors"}
GameResult == {"HostWins", "OpponentWins", "Tie"}

\* Response / ContractError as one record shape
OkResponse(attrs) ==
    [addr |-> "", status |-> "Ok", error |-> "", attributes |-> attrs]
ErrResponse(e, a) ==
    [addr |-> a, status |-> "Err", error |-> e, attributes |-> <<>>]
PanicResponse(text) ==
    [addr |-> "", status |-> "Panic", error |-> text, attributes |-> <<>>]

\* Result<T, E> of the helpers
Ok(v) == [ok |-> TRUE, val |-> v, err |-> ""]
Err(e) == [ok |-> FALSE, val |-> "", err |-> e]

\* what a handler hands back: its response and the storage it leaves
Outcome(resp, game, admin, hooks, updated) ==
    [resp |-> resp, GAME |-> game, ADMIN |-> admin, HOOKS |-> hooks,
     updated |-> updated]
\* a handler that returned Err or panicked: the chain drops its writes
Failed(resp) == Outcome(resp, GAME, ADMIN, HOOKS, None)

(***************************************************************************)
(* External collaborators, by what they do.                                *)
(***************************************************************************)
\* Api::addr_validate: the same string as an Addr, or a StdError
addr_validate(s) ==
    IF s \in ValidAddrs THEN Ok(s) ELSE Err("Std(GenericErr)")

\* the list a Hooks cell holds, empty when nothing was stored yet
HooksOf(cell) == IF IsSome(cell) THEN Unwrap(cell) ELSE <<>>

\* Hooks::query_hooks
query_hooks_mut == <<>>
query_hooks == HooksOf(HOOKS)

\* membership in a list
Contains(seq, x) == \E i \in 1..Len(seq) : seq[i] = x

\* Admin::is_admin: false when no admin is set
is_admin_unset_passes(caller) ==
    IF IsSome(ADMIN) THEN caller = Unwrap(ADMIN) ELSE TRUE
is_admin(caller) ==
    IF IsSome(ADMIN) THEN caller = Unwrap(ADMIN) ELSE FALSE

(***************************************************************************)
(* instantiate                                                             *)
(***************************************************************************)
instantiate(sender, admin_address) ==
    [STATE_ITEM |-> [owner |-> sender],
     ADMIN |-> admin_address,
     resp  |-> OkResponse(<<
                  <<"method", "instantiate">>, <<"owner", sender>> >>)]

(***************************************************************************)
(* The match store: Map<(&Addr, &Addr), Game> as a function whose domain   *)
(* is the set of keys that hold a record.                                  *)
(***************************************************************************)
\* Map::save
save_both_orders(map, key, value) ==
    [k \in DOMAIN map \cup {key, <<key[2], key[1]>>} |->
        IF k \in {key, <<key[2], key[1]>>} THEN value ELSE map[k]]
save_if_vacant(map, key, value) ==
    IF key \in DOMAIN map THEN map
    ELSE [k \in DOMAIN map \cup {key} |-> IF k = key THEN value ELSE map[k]]
save(map, key, value) ==
    [k \in DOMAIN map \cup {key} |-> IF k = key THEN value ELSE map[k]]

\* Map::remove
remove_mut(map, key) == map
remove(map, key) ==
    [k \in DOMAIN map \ {key} |-> map[k]]

(***************************************************************************)
(* execute_start_game                                                      *)
(***************************************************************************)
\* the blacklist test on the caller
blacklisted_mut(hooks, sender) == FALSE
blacklisted(hooks, sender) == Contains(hooks, sender)

\* the record a start writes
NewGame_mut(sender, opponent, first_move) ==
    [host      |-> opponent,
     opponent  |-> sender,
     host_move |-> first_move,
     opp_move  |-> None,
     result    |-> None]
NewGame(sender, opponent, first_move) ==
    [host      |-> sender,
     opponent  |-> opponent,
     host_move |-> first_move,
     opp_move  |-> None,
     result    |-> None]

execute_start_game_saves_first(sender, opponent, first_move) ==
    LET validated_opponent_address == addr_validate(opponent)
        hooks == query_hooks
    IN  IF ~validated_opponent_address.ok
        THEN Failed(ErrResponse(validated_opponent_address.err, ""))
        ELSE LET game == NewGame(sender, validated_opponent_address.val,
                                 first_move)
                 saved == save(GAME,
                               <<sender, validated_opponent_address.val>>,
                               game)
             IN  IF blacklisted(hooks, sender)
                 THEN Outcome(ErrResponse("BlacklistedAddress", sender),
                              saved, ADMIN, HOOKS, None)
                 ELSE Outcome(
                        OkResponse(<< <<"method", "execute_start_game">> >>),
                        saved, ADMIN, HOOKS, None)
execute_start_game_no_self_play(sender, opponent, first_move) ==
    LET validated_opponent_address == addr_validate(opponent)
        hooks == query_hooks
    IN  IF ~validated_opponent_address.ok
        THEN Failed(ErrResponse(validated_opponent_address.err, ""))
        ELSE IF blacklisted(hooks, sender)
        THEN Failed(ErrResponse("BlacklistedAddress", sender))
        ELSE IF validated_opponent_address.val = sender
        THEN Failed(ErrResponse("Unauthorized", ""))
        ELSE LET game == NewGame(sender, validated_opponent_address.val,
                                 first_move)
             IN  Outcome(OkResponse(<< <<"method", "execute_start_game">> >>),
                         save(GAME,
                              <<sender, validated_opponent_address.val>>,
                              game),
                         ADMIN, HOOKS, None)
execute_start_game(sender, opponent, first_move) ==
    LET validated_opponent_address == addr_validate(opponent)
        hooks == query_hooks
    IN  IF ~validated_opponent_address.ok
        THEN Failed(ErrResponse(validated_opponent_address.err, ""))
        ELSE IF blacklisted(hooks, sender)
        THEN Failed(ErrResponse("BlacklistedAddress", sender))
        ELSE LET game == NewGame(sender, validated_opponent_address.val,
                                 first_move)
             IN  Outcome(OkResponse(<< <<"method", "execute_start_game">> >>),
                         save(GAME,
                              <<sender, validated_opponent_address.val>>,
                              game),
                         ADMIN, HOOKS, None)

(***************************************************************************)
(* get_result                                                              *)
(***************************************************************************)
get_result_mut(game) ==
    IF ~IsSome(game.opp_move) THEN Err("UnexpectedGameResult")
    ELSE LET opponent_move == Unwrap(game.opp_move)
         IN  CASE game.host_move = "Paper" ->
                    (CASE opponent_move = "Paper" -> Ok("Tie")
                       [] opponent_move = "Rock" -> Ok("OpponentWins")
                       [] opponent_move = "Scissors" -> Ok("OpponentWins"))
               [] game.host_move = "Rock" ->
                    (CASE opponent_move = "Paper" -> Ok("OpponentWins")
                       [] opponent_move = "Rock" -> Ok("Tie")
                       [] opponent_move = "Scissors" -> Ok("HostWins"))
               [] game.host_move = "Scissors" ->
                    (CASE opponent_move = "Paper" -> Ok("HostWins")
                       [] opponent_move = "Rock" -> Ok("OpponentWins")
                       [] opponent_move = "Scissors" -> Ok("Tie"))
get_result(game) ==
    IF ~IsSome(game.opp_move) THEN Err("UnexpectedGameResult")
    ELSE LET opponent_move == Unwrap(game.opp_move)
         IN  CASE game.host_move = "Paper" ->
                    (CASE opponent_move = "Paper" -> Ok("Tie")
                       [] opponent_move = "Rock" -> Ok("HostWins")
                       [] opponent_move = "Scissors" -> Ok("OpponentWins"))
               [] game.host_move = "Rock" ->
                    (CASE opponent_move = "Paper" -> Ok("OpponentWins")
                       [] opponent_move = "Rock" -> Ok("Tie")
                       [] opponent_move = "Scissors" -> Ok("HostWins"))
               [] game.host_move = "Scissors" ->
                    (CASE opponent_move = "Paper" -> Ok("HostWins")
                       [] opponent_move = "Rock" -> Ok("OpponentWins")
                       [] opponent_move = "Scissors" -> Ok("Tie"))

(***************************************************************************)
(* execute_respond                                                         *)
(***************************************************************************)
\* the key every store access of a respond uses: (host, caller)
game_key_reversed(host_address, sender) == <<sender, host_address>>
game_key_any_opponent(host_address, sender) ==
    IF \E k \in DOMAIN GAME : k[1] = host_address
    THEN CHOOSE k \in DOMAIN GAME : k[1] = host_address
    ELSE <<host_address, sender>>
game_key(host_address, sender) == <<host_address, sender>>

\* GAME.load at the key: the record, or GameNotFound
load_game_gated(key) ==
    IF key \in DOMAIN GAME /\ ~Contains(HooksOf(HOOKS), key[1])
    THEN Ok(GAME[key])
    ELSE Err("GameNotFound")
load_game(key) ==
    IF key \in DOMAIN GAME THEN Ok(GAME[key]) ELSE Err("GameNotFound")

\* the closure of GAME.update, on the Option<Game> read at the key
update_game_sets_host_move(state, second_move, game_result_tmp) ==
    IF IsSome(state)
    THEN Ok([Unwrap(state) EXCEPT !.host_move = second_move,
                                  !.opp_move = Some(second_move),
                                  !.result = game_result_tmp])
    ELSE Err("GameNotFound")
update_game_drops_result(state, second_move, game_result_tmp) ==
    IF IsSome(state)
    THEN Ok([Unwrap(state) EXCEPT !.opp_move = Some(second_move)])
    ELSE Err("GameNotFound")
update_game_stale_result(state, second_move, game_result_tmp) ==
    IF IsSome(state)
    THEN Ok([Unwrap(state) EXCEPT !.opp_move = Some(second_move),
                                  !.result = Some("Tie")])
    ELSE Err("GameNotFound")
update_game(state, second_move, game_result_tmp) ==
    IF IsSome(state)
    THEN Ok([Unwrap(state) EXCEPT !.opp_move = Some(second_move),
                                  !.result = game_result_tmp])
    ELSE Err("GameNotFound")

\* the attribute text of the record's result; anything else panics
ResultText_mut(result) ==
    CASE result = Some("HostWins") -> Ok("Opponent Wins")
      [] result = Some("OpponentWins") -> Ok("Host Wins")
      [] result = Some("Tie") -> Ok("Tie")
      [] OTHER -> Err("Unexpected result")
ResultText(result) ==
    CASE result = Some("HostWins") -> Ok("Host Wins")
      [] result = Some("OpponentWins") -> Ok("Opponent Wins")
      [] result = Some("Tie") -> Ok("Tie")
      [] OTHER -> Err("Unexpected result")

execute_respond(sender, host, second_move) ==
    LET host_address == addr_validate(host)
    IN  IF ~host_address.ok THEN Failed(ErrResponse(host_address.err, ""))
        ELSE
        LET key == game_key(host_address.val, sender)
            loaded == load_game(key)
        IN  IF ~loaded.ok THEN Failed(ErrResponse(loaded.err, ""))
            ELSE
            LET game_load == [loaded.val EXCEPT !.opp_move = Some(second_move)]
                result == get_result(game_load)
            IN  IF ~result.ok THEN Failed(ErrResponse(result.err, ""))
                ELSE
                LET game_result_tmp == Some(result.val)
                    state == IF key \in DOMAIN GAME
                             THEN Some(GAME[key]) ELSE None
                    game == update_game(state, second_move, game_result_tmp)
                IN  IF ~game.ok THEN Failed(ErrResponse(game.err, ""))
                    ELSE
                    LET updated == save(GAME, key, game.val)
                        removed == remove(updated, key)
                        game_result == ResultText(game.val.result)
                    IN  IF ~game_result.ok
                        THEN Failed(PanicResponse(game_result.err))
                        ELSE Outcome(
                               OkResponse(<< <<"method", "execute_respond">>,
                                             <<"result", game_result.val>> >>),
                               removed, ADMIN, HOOKS, Some(game.val))

(***************************************************************************)
(* Admin::execute_update_admin, Hooks::execute_add_hook / remove_hook      *)
(***************************************************************************)
execute_update_admin_unchecked(sender, new_admin) ==
    Outcome(OkResponse(<< <<"action", "update_admin">>,
                          <<"admin", IF IsSome(new_admin)
                                     THEN Unwrap(new_admin) ELSE "None">>,
                          <<"sender", sender>> >>),
            GAME, new_admin, HOOKS, None)
execute_update_admin(sender, new_admin) ==
    IF ~is_admin(sender) THEN Failed(ErrResponse("Admin(NotAdmin)", ""))
    ELSE Outcome(OkResponse(<< <<"action", "update_admin">>,
                               <<"admin", IF IsSome(new_admin)
                                          THEN Unwrap(new_admin) ELSE "None">>,
                               <<"sender", sender>> >>),
                 GAME, new_admin, HOOKS, None)

execute_add_hook_purges(sender, addr) ==
    IF ~is_admin(sender) THEN Failed(ErrResponse("Hook(Admin(NotAdmin))", ""))
    ELSE LET hooks == query_hooks
         IN  IF Contains(hooks, addr)
             THEN Failed(ErrResponse("Hook(HookAlreadyRegistered)", ""))
             ELSE Outcome(OkResponse(<< <<"action", "add_hook">>,
                                        <<"hook", addr>>,
                                        <<"sender", sender>> >>),
                          [k \in {j \in DOMAIN GAME : j[1] # addr} |-> GAME[k]],
                          ADMIN, Some(Append(hooks, addr)), None)
execute_add_hook_idempotent(sender, addr) ==
    IF ~is_admin(sender) THEN Failed(ErrResponse("Hook(Admin(NotAdmin))", ""))
    ELSE LET hooks == query_hooks
         IN  Outcome(OkResponse(<< <<"action", "add_hook">>,
                                   <<"hook", addr>>,
                                   <<"sender", sender>> >>),
                     GAME, ADMIN,
                     Some(IF Contains(hooks, addr) THEN hooks
                          ELSE Append(hooks, addr)),
                     None)
execute_add_hook(sender, addr) ==
    IF ~is_admin(sender) THEN Failed(ErrResponse("Hook(Admin(NotAdmin))", ""))
    ELSE LET hooks == query_hooks
         IN  IF Contains(hooks, addr)
             THEN Failed(ErrResponse("Hook(HookAlreadyRegistered)", ""))
             ELSE Outcome(OkResponse(<< <<"action", "add_hook">>,
                                        <<"hook", addr>>,
                                        <<"sender", sender>> >>),
                          GAME, ADMIN, Some(Append(hooks, addr)), None)

execute_remove_hook_unchecked(sender, addr) ==
    IF ~IsSome(HOOKS) THEN Failed(ErrResponse("Hook(Std(NotFound))", ""))
    ELSE LET hooks == Unwrap(HOOKS)
         IN  IF ~Contains(hooks, addr)
             THEN Failed(ErrResponse("Hook(HookNotRegistered)", ""))
             ELSE Outcome(OkResponse(<< <<"action", "remove_hook">>,
                                        <<"hook", addr>>,
                                        <<"sender", sender>> >>),
                          GAME, ADMIN,
                          Some(SelectSeq(hooks, LAMBDA h : h # addr)), None)
execute_remove_hook(sender, addr) ==
    IF ~is_admin(sender) THEN Failed(ErrResponse("Hook(Admin(NotAdmin))", ""))
    ELSE IF ~IsSome(HOOKS) THEN Failed(ErrResponse("Hook(Std(NotFound))", ""))
    ELSE LET hooks == Unwrap(HOOKS)
         IN  IF ~Contains(hooks, addr)
             THEN Failed(ErrResponse("Hook(HookNotRegistered)", ""))
             ELSE Outcome(OkResponse(<< <<"action", "remove_hook">>,
                                        <<"hook", addr>>,
                                        <<"sender", sender>> >>),
                          GAME, ADMIN,
                          Some(SelectSeq(hooks, LAMBDA h : h # addr)), None)

(***************************************************************************)
(* Queries.  A range scan yields the records in ascending order of their   *)
(* storage keys: the length-prefixed namespace, the length-prefixed host   *)
(* and the opponent, as bytes.                                             *)
(***************************************************************************)
AddrBytes(a) ==
    CASE a = "creator"    -> <<99, 114, 101, 97, 116, 111, 114>>
      [] a = "someone"    -> <<115, 111, 109, 101, 111, 110, 101>>
      [] a = "elona_musk" -> <<101, 108, 111, 110, 97, 95, 109, 117, 115, 107>>

LengthPrefixed(bytes) == <<Len(bytes) \div 256, Len(bytes) % 256>> \o bytes

\* the namespace "state" of GAME
GameNamespace == <<115, 116, 97, 116, 101>>

StorageKey(key) ==
    LengthPrefixed(GameNamespace) \o LengthPrefixed(AddrBytes(key[1]))
        \o AddrBytes(key[2])

\* byte strings in lexicographic order
BytesLess(x, y) ==
    \E i \in 1..(Len(x) + 1) :
        /\ i <= Len(y)
        /\ \A j \in 1..(i - 1) : x[j] = y[j]
        /\ (i = Len(x) + 1 \/ x[i] < y[i])

\* a set of keys as the sequence in ascending order of the storage keys
RECURSIVE SortKeys(_)
SortKeys(keys) ==
    IF keys = {} THEN <<>>
    ELSE LET first == CHOOSE k \in keys :
                        \A j \in keys \ {k} :
                            BytesLess(StorageKey(k), StorageKey(j))
         IN  <<first>> \o SortKeys(keys \ {first})

\* every key the store can hold, ascending
AllKeysAscending == SortKeys(ValidAddrs \X ValidAddrs)

\* Order::Ascending over the keys present: a range scan walks the keys in
\* storage order and yields those that hold a record
Ascending(keys) == SelectSeq(AllKeysAscending, LAMBDA k : k \in keys)

GamesAt(keys) == [i \in 1..Len(keys) |-> GAME[keys[i]]]

get_owner_of_admin ==
    IF IsSome(ADMIN) THEN Unwrap(ADMIN) ELSE STATE_ITEM.owner
get_owner == STATE_ITEM.owner

get_game_by_host_unprefixed(host) ==
    LET validated_host == addr_validate(host)
    IN  IF ~validated_host.ok THEN Err(validated_host.err)
        ELSE Ok(GamesAt(Ascending(DOMAIN GAME)))
get_game_by_host(host) ==
    LET validated_host == addr_validate(host)
    IN  IF ~validated_host.ok THEN Err(validated_host.err)
        ELSE Ok(GamesAt(Ascending(
                   {k \in DOMAIN GAME : k[1] = validated_host.val})))

get_game_by_opponent_by_host(opponent) ==
    LET validated_opponent == addr_validate(opponent)
    IN  IF ~validated_opponent.ok THEN Err(validated_opponent.err)
        ELSE Ok(SelectSeq(GamesAt(Ascending(DOMAIN GAME)),
                          LAMBDA game :
                              game.host = validated_opponent.val))
get_game_by_opponent(opponent) ==
    LET validated_opponent == addr_validate(opponent)
    IN  IF ~validated_opponent.ok THEN Err(validated_opponent.err)
        ELSE Ok(SelectSeq(GamesAt(Ascending(DOMAIN GAME)),
                          LAMBDA game :
                              game.opponent = validated_opponent.val))

query_admin == ADMIN

(***************************************************************************)
(* execute: the dispatcher.  A message is [type, addr, move]; the fields a *)
(* message type does not carry are "".                                     *)
(***************************************************************************)
InstantiateMsg(admin_address) ==
    [type |-> "instantiate",
     addr |-> IF IsSome(admin_address) THEN Unwrap(admin_address) ELSE "",
     move |-> ""]
StartGameMsg(opponent, first_move) ==
    [type |-> "start_game", addr |-> opponent, move |-> first_move]
RespondMsg(host, second_move) ==
    [type |-> "respond", addr |-> host, move |-> second_move]
UpdateAdminMsg(admin_address) ==
    [type |-> "update_admin", addr |-> admin_address, move |-> ""]
AddHookMsg(addr) ==
    [type |-> "add_hook", addr |-> addr, move |-> ""]
RemoveHookMsg(addr) ==
    [type |-> "remove_hook", addr |-> addr, move |-> ""]

execute(sender, msg) ==
    CASE msg.type = "start_game" ->
            execute_start_game(sender, msg.addr, msg.move)
      [] msg.type = "respond" ->
            execute_respond(sender, msg.addr, msg.move)
      [] msg.type = "update_admin" ->
            LET a == addr_validate(msg.addr)
            IN  IF ~a.ok THEN Failed(ErrResponse(a.err, ""))
                ELSE execute_update_admin(sender, Some(a.val))
      [] msg.type = "add_hook" ->
            LET a == addr_validate(msg.addr)
            IN  IF ~a.ok THEN Failed(ErrResponse(a.err, ""))
                ELSE execute_add_hook(sender, a.val)
      [] msg.type = "remove_hook" ->
            LET a == addr_validate(msg.addr)
            IN  IF ~a.ok THEN Failed(ErrResponse(a.err, ""))
                ELSE execute_remove_hook(sender, a.val)

(***************************************************************************)
(* The state machine.                                                      *)
(***************************************************************************)
\* the size the bound caps
\* the contracts are separate deployments: while one runs, the variables
\* of the others keep the value they have before any deployment
RpsAbsent ==
    /\ GAME = << >>
    /\ ADMIN = None
    /\ HOOKS = None
    /\ STATE_ITEM = None
    /\ reply = NoReply
OptionAbsent ==
    /\ OPTION_STATE = None
    /\ height = 0
    /\ option_reply = NoOptionReply
PotAbsent ==
    /\ CONFIG = None
    /\ POT_SEQ = 0
    /\ POTS = << >>
    /\ pot_reply = NoPotReply
    /\ ledger = << >>

WithinBounds(out) ==
    Cardinality(DOMAIN out.GAME) + Len(HooksOf(out.HOOKS)) <= MaxEntries

\* one message, run to completion
Request(sender, msg) ==
    /\ reply = NoReply
    /\ \E out \in {execute(sender, msg)} :
        /\ WithinBounds(out)
        /\ GAME' = out.GAME
        /\ ADMIN' = out.ADMIN
        /\ HOOKS' = out.HOOKS
        /\ UNCHANGED STATE_ITEM
        /\ UNCHANGED option_vars
        /\ UNCHANGED pot_vars
        /\ reply' = [sender |-> sender, msg |-> msg, resp |-> out.resp,
                     updated |-> out.updated,
                     replaced |-> IF /\ msg.type = "start_game"
                                     /\ out.resp.status = "Ok"
                                     /\ <<sender, msg.addr>> \in DOMAIN GAME
                                  THEN Some(GAME[<<sender, msg.addr>>])
                                  ELSE None]

Init ==
    \E admin_address \in {None} \cup {Some(a) : a \in ValidAddrs} :
        \E out \in {instantiate("creator", admin_address)} :
            /\ GAME = << >>
            /\ ADMIN = out.ADMIN
            /\ HOOKS = None
            /\ STATE_ITEM = out.STATE_ITEM
            /\ reply = [sender |-> "creator",
                        msg |-> InstantiateMsg(admin_address),
                        resp |-> out.resp, updated |-> None,
                        replaced |-> None]
            /\ OptionAbsent
            /\ PotAbsent

StartGame ==
    \E sender \in ValidAddrs, opponent \in AddrStrings, first_move \in GameMove :
        Request(sender, StartGameMsg(opponent, first_move))

Respond ==
    \E sender \in ValidAddrs, host \in AddrStrings, second_move \in GameMove :
        Request(sender, RespondMsg(host, second_move))

UpdateAdmin ==
    \E sender \in ValidAddrs, admin_address \in AddrStrings :
        Request(sender, UpdateAdminMsg(admin_address))

AddHook ==
    \E sender \in ValidAddrs, addr \in AddrStrings :
        Request(sender, AddHookMsg(addr))

RemoveHook ==
    \E sender \in ValidAddrs, addr \in AddrStrings :
        Request(sender, RemoveHookMsg(addr))

\* the response reaches the caller
Deliver ==
    /\ reply # NoReply
    /\ reply' = NoReply
    /\ UNCHANGED storage
    /\ UNCHANGED option_vars
    /\ UNCHANGED pot_vars

Next ==
    \/ StartGame
    \/ Respond
    \/ UpdateAdmin
    \/ AddHook
    \/ RemoveHook
    \/ Deliver

Spec == Init /\ [][Next]_vars

(***************************************************************************)
(* simple-option                                                           *)
(***************************************************************************)
\* the Vec<Coin> values a request carries or the option holds
Funds == {<<>>, coins(40, "ETH"), coins(39, "ETH"), coins(1, "BTC"),
          << Coin("BTC", 1), Coin("ETH", 40) >>}

\* BankMsg::Send
BankSend(to_address, amount) == [to_address |-> to_address, amount |-> amount]

\* Response / ContractError of simple-option
OptionOk(method, messages) ==
    [status |-> "Ok", error |-> "",
     attributes |-> << <<"method", method>> >>,
     messages |-> messages, offer |-> <<>>]
OptionErr(e) ==
    [status |-> "Err", error |-> e, attributes |-> <<>>,
     messages |-> <<>>, offer |-> <<>>]
\* ContractError::NotEqualCounterOffer { val }
NotEqualCounterOffer(val) ==
    [status |-> "Err", error |-> "NotEqualCounterOffer",
     attributes |-> <<>>, messages |-> <<>>, offer |-> val]

\* what a handler leaves: its response and the STATE item
OptionOutcome(resp, state) == [resp |-> resp, OPTION_STATE |-> state]
\* a handler that returned Err: the chain drops its writes
OptionFailed(resp) == OptionOutcome(resp, OPTION_STATE)

\* Item::load of STATE
load_state ==
    IF IsSome(OPTION_STATE) THEN Ok(Unwrap(OPTION_STATE))
    ELSE Err("Std(NotFound)")

option_instantiate(block_height, sender, funds, counter_offer, expires) ==
    IF expires <= block_height
    THEN [resp |-> OptionErr("CreateExpired"), OPTION_STATE |-> None]
    ELSE [resp |-> [status |-> "Ok", error |-> "",
                    attributes |-> << <<"method", "instantiate">>,
                                      <<"creator", sender>>,
                                      <<"owner", sender>> >>,
                    messages |-> <<>>, offer |-> <<>>],
          OPTION_STATE |-> Some([creator |-> sender,
                                 owner |-> sender,
                                 collateral |-> funds,
                                 counter_offer |-> counter_offer,
                                 expires |-> expires])]

handle_transfer_validates_first(sender, recipient) ==
    LET state_loaded == load_state
        recipient_address == addr_validate(recipient)
    IN  IF ~state_loaded.ok THEN OptionFailed(OptionErr(state_loaded.err))
        ELSE IF ~recipient_address.ok
        THEN OptionFailed(OptionErr(recipient_address.err))
        ELSE IF sender # state_loaded.val.owner
        THEN OptionFailed(OptionErr("Unauthorized"))
        ELSE OptionOutcome(
               OptionOk("handle_transfer", <<>>),
               Some([state_loaded.val EXCEPT
                       !.owner = recipient_address.val]))
handle_transfer(sender, recipient) ==
    LET state_loaded == load_state
    IN  IF ~state_loaded.ok THEN OptionFailed(OptionErr(state_loaded.err))
        ELSE IF sender # state_loaded.val.owner
        THEN OptionFailed(OptionErr("Unauthorized"))
        ELSE LET recipient_address == addr_validate(recipient)
             IN  IF ~recipient_address.ok
                 THEN OptionFailed(OptionErr(recipient_address.err))
                 ELSE OptionOutcome(
                        OptionOk("handle_transfer", <<>>),
                        Some([state_loaded.val EXCEPT
                                !.owner = recipient_address.val]))

handle_execute_keeps_option(block_height, sender, funds) ==
    LET state == load_state
    IN  IF ~state.ok THEN OptionFailed(OptionErr(state.err))
        ELSE IF sender # state.val.owner
        THEN OptionFailed(OptionErr("Unauthorized"))
        ELSE IF block_height >= state.val.expires
        THEN OptionFailed(OptionErr("Expired"))
        ELSE IF funds # state.val.counter_offer
        THEN OptionFailed(NotEqualCounterOffer(state.val.counter_offer))
        ELSE OptionOutcome(
               OptionOk("handle_execute",
                        << BankSend(state.val.creator,
                                    state.val.counter_offer),
                           BankSend(state.val.owner,
                                    state.val.collateral) >>),
               OPTION_STATE)
handle_execute_expiry_first(block_height, sender, funds) ==
    LET state == load_state
    IN  IF ~state.ok THEN OptionFailed(OptionErr(state.err))
        ELSE IF block_height >= state.val.expires
        THEN OptionFailed(OptionErr("Expired"))
        ELSE IF sender # state.val.owner
        THEN OptionFailed(OptionErr("Unauthorized"))
        ELSE IF funds # state.val.counter_offer
        THEN OptionFailed(NotEqualCounterOffer(state.val.counter_offer))
        ELSE OptionOutcome(
               OptionOk("handle_execute",
                        << BankSend(state.val.creator,
                                    state.val.counter_offer),
                           BankSend(state.val.owner,
                                    state.val.collateral) >>),
               None)
handle_execute(block_height, sender, funds) ==
    LET state == load_state
    IN  IF ~state.ok THEN OptionFailed(OptionErr(state.err))
        ELSE IF sender # state.val.owner
        THEN OptionFailed(OptionErr("Unauthorized"))
        ELSE IF block_height >= state.val.expires
        THEN OptionFailed(OptionErr("Expired"))
        ELSE IF funds # state.val.counter_offer
        THEN OptionFailed(NotEqualCounterOffer(state.val.counter_offer))
        ELSE OptionOutcome(
               OptionOk("handle_execute",
                        << BankSend(state.val.creator,
                                    state.val.counter_offer),
                           BankSend(state.val.owner,
                                    state.val.collateral) >>),
               None)

handle_burn_refunds_owner(block_height, sender, funds) ==
    LET state == load_state
    IN  IF ~state.ok THEN OptionFailed(OptionErr(state.err))
        ELSE IF block_height < state.val.expires
        THEN OptionFailed(OptionErr("NotExpired"))
        ELSE IF funds # <<>>
        THEN OptionFailed(OptionErr("BurnFunds"))
        ELSE OptionOutcome(
               OptionOk("handle_burn",
                        << BankSend(state.val.owner,
                                    state.val.collateral) >>),
               None)
handle_burn(block_height, sender, funds) ==
    LET state == load_state
    IN  IF ~state.ok THEN OptionFailed(OptionErr(state.err))
        ELSE IF block_height < state.val.expires
        THEN OptionFailed(OptionErr("NotExpired"))
        ELSE IF funds # <<>>
        THEN OptionFailed(OptionErr("BurnFunds"))
        ELSE OptionOutcome(
               OptionOk("handle_burn",
                        << BankSend(state.val.creator,
                                    state.val.collateral) >>),
               None)

\* ExecuteMsg of simple-option
TransferMsg(recipient) == [type |-> "transfer", addr |-> recipient]
ExecuteOptionMsg == [type |-> "execute", addr |-> ""]
BurnMsg == [type |-> "burn", addr |-> ""]

option_execute(block_height, sender, funds, msg) ==
    CASE msg.type = "transfer" -> handle_transfer(sender, msg.addr)
      [] msg.type = "execute" -> handle_execute(block_height, sender, funds)
      [] msg.type = "burn" -> handle_burn(block_height, sender, funds)

\* one message to simple-option, run to completion at the current height
OptionRequest(sender, funds, msg) ==
    \E out \in {option_execute(height, sender, funds, msg)} :
        /\ OPTION_STATE' = out.OPTION_STATE
        /\ option_reply' = [sender |-> sender, msg |-> msg,
                            resp |-> out.resp, funds |-> funds,
                            at |-> height]
        /\ UNCHANGED height
        /\ UNCHANGED rps_vars
        /\ UNCHANGED pot_vars

\* the option right after a successful instantiate by "creator"
InitOption ==
    /\ RpsAbsent
    /\ PotAbsent
    /\ \E block_height \in 0 .. MaxHeight - 1, expires \in 0 .. MaxHeight,
          funds \in {<<>>, coins(1, "BTC")},
          counter_offer \in {<<>>, coins(40, "ETH")} :
        \E out \in {option_instantiate(block_height, "creator", funds,
                                       counter_offer, expires)} :
            /\ out.resp.status = "Ok"
            /\ OPTION_STATE = out.OPTION_STATE
            /\ height = block_height
            /\ option_reply = [sender |-> "creator",
                               msg |-> [type |-> "instantiate", addr |-> ""],
                               resp |-> out.resp, funds |-> funds,
                               at |-> block_height]

Transfer ==
    \E sender \in ValidAddrs, recipient \in AddrStrings :
        OptionRequest(sender, <<>>, TransferMsg(recipient))

Execute ==
    \E sender \in ValidAddrs, funds \in Funds :
        OptionRequest(sender, funds, ExecuteOptionMsg)

Burn ==
    \E sender \in ValidAddrs, funds \in Funds :
        OptionRequest(sender, funds, BurnMsg)

\* the chain produces the next block
NextBlock ==
    /\ height < MaxHeight
    /\ height' = height + 1
    /\ UNCHANGED <<OPTION_STATE, option_reply>>
    /\ UNCHANGED rps_vars
    /\ UNCHANGED pot_vars

NextOption ==
    \/ Transfer
    \/ Execute
    \/ Burn
    \/ NextBlock

SpecOption == InitOption /\ [][NextOption]_vars

(***************************************************************************)
(* cw20-pot                                                                *)
(***************************************************************************)
\* the thresholds a pot is created with
Thresholds == {0, 2}
\* the amounts a Receive reports
Amounts == {0, 1, Uint128Max}
\* the identities a pot is created for
TargetAddrs == {"someone", "elona_musk", InvalidAddr}

\* Pot
Pot(target_addr, threshold_amount, collected) ==
    [target_addr |-> target_addr, threshold_amount |-> threshold_amount,
     collected |-> collected]

\* Cw20Contract::call(Cw20ExecuteMsg::Transfer): a message to the token
\* contract asking it to transfer amount to recipient
Cw20Transfer(contract_addr, recipient, amount) ==
    [contract_addr |-> contract_addr, recipient |-> recipient,
     amount |-> amount]

\* Response / ContractError of cw20-pot
PotOk(attrs, messages) ==
    [status |-> "Ok", error |-> "", attributes |-> attrs,
     messages |-> messages]
PotErr(e) ==
    [status |-> "Err", error |-> e, attributes |-> <<>>, messages |-> <<>>]
\* a panic aborts the call
PotPanic(text) ==
    [status |-> "Panic", error |-> text, attributes |-> <<>>,
     messages |-> <<>>]

\* what a handler leaves: its response and the three stores
PotOutcome(resp, config, seq, pots) ==
    [resp |-> resp, CONFIG |-> config, POT_SEQ |-> seq, POTS |-> pots]
\* a handler that returned Err or panicked: the chain drops its writes
PotFailed(resp) == PotOutcome(resp, CONFIG, POT_SEQ, POTS)

pot_instantiate(sender, admin, cw20_addr) ==
    LET validated_admin ==
            IF IsSome(admin) THEN addr_validate(Unwrap(admin)) ELSE Err("")
        owner == IF validated_admin.ok THEN validated_admin.val ELSE sender
        validated_cw20 == addr_validate(cw20_addr)
    IN  IF ~validated_cw20.ok
        THEN PotOutcome(PotErr(validated_cw20.err), None, 0, << >>)
        ELSE PotOutcome(
               PotOk(<< <<"method", "instantiate">>, <<"owner", owner>>,
                        <<"cw20_addr", cw20_addr>> >>, <<>>),
               [owner |-> owner, cw20_addr |-> validated_cw20.val],
               0, << >>)

\* save_pot: the next id, and the pot stored under it
save_pot(seq, pots, pot) ==
    LET id == seq + 1
    IN  [POT_SEQ |-> id,
         POTS |-> [k \in DOMAIN pots \cup {id} |->
                      IF k = id THEN pot ELSE pots[k]]]

execute_create_pot_validates_first(sender, target_addr, threshold) ==
    LET validated == addr_validate(target_addr)
    IN  IF ~validated.ok THEN PotFailed(PotErr(validated.err))
        ELSE IF CONFIG.owner # sender THEN PotFailed(PotErr("Unauthorized"))
        ELSE LET saved == save_pot(POT_SEQ, POTS,
                                   Pot(validated.val, threshold, 0))
             IN  PotOutcome(
                   PotOk(<< <<"action", "execute_create_pot">>,
                            <<"target_addr", target_addr>>,
                            <<"threshold_amount", threshold>> >>, <<>>),
                   CONFIG, saved.POT_SEQ, saved.POTS)
execute_create_pot(sender, target_addr, threshold) ==
    IF CONFIG.owner # sender THEN PotFailed(PotErr("Unauthorized"))
    ELSE LET validated == addr_validate(target_addr)
         IN  IF ~validated.ok THEN PotFailed(PotErr(validated.err))
             ELSE LET saved == save_pot(POT_SEQ, POTS,
                                        Pot(validated.val, threshold, 0))
                  IN  PotOutcome(
                        PotOk(<< <<"action", "execute_create_pot">>,
                                 <<"target_addr", target_addr>>,
                                 <<"threshold_amount", threshold>> >>, <<>>),
                        CONFIG, saved.POT_SEQ, saved.POTS)

\* Uint128 += : the sum, or a panic when it does not fit
checked_add(a, b) ==
    IF a + b > Uint128Max THEN Err("attempt to add with overflow")
    ELSE Ok(a + b)

receive_send_strictly_above(pot_id, amount, cw20_addr) ==
    IF pot_id \notin DOMAIN POTS THEN PotFailed(PotErr("Std(NotFound)"))
    ELSE LET sum == checked_add(POTS[pot_id].collected, amount)
         IN  IF ~sum.ok THEN PotFailed(PotPanic(sum.err))
             ELSE LET pot == [POTS[pot_id] EXCEPT !.collected = sum.val]
                  IN  PotOutcome(
                        PotOk(<< <<"action", "receive_send">>,
                                 <<"pot_id", pot_id>>,
                                 <<"collected", pot.collected>>,
                                 <<"threshold", pot.threshold_amount>> >>,
                              IF pot.collected > pot.threshold_amount
                              THEN << Cw20Transfer(cw20_addr,
                                                   pot.target_addr,
                                                   pot.collected) >>
                              ELSE <<>>),
                        CONFIG, POT_SEQ,
                        [POTS EXCEPT ![pot_id] = pot])
receive_send(pot_id, amount, cw20_addr) ==
    IF pot_id \notin DOMAIN POTS THEN PotFailed(PotErr("Std(NotFound)"))
    ELSE LET sum == checked_add(POTS[pot_id].collected, amount)
         IN  IF ~sum.ok THEN PotFailed(PotPanic(sum.err))
             ELSE LET pot == [POTS[pot_id] EXCEPT !.collected = sum.val]
                  IN  PotOutcome(
                        PotOk(<< <<"action", "receive_send">>,
                                 <<"pot_id", pot_id>>,
                                 <<"collected", pot.collected>>,
                                 <<"threshold", pot.threshold_amount>> >>,
                              IF pot.collected >= pot.threshold_amount
                              THEN << Cw20Transfer(cw20_addr,
                                                   pot.target_addr,
                                                   pot.collected) >>
                              ELSE <<>>),
                        CONFIG, POT_SEQ,
                        [POTS EXCEPT ![pot_id] = pot])

\* from_binary of the attached message: ReceiveMsg::Send { id }, or an error
from_binary(payload) ==
    IF IsSome(payload) THEN Ok(Unwrap(payload)) ELSE Err("Std(ParseErr)")

execute_receive(sender, amount, payload) ==
    IF CONFIG.cw20_addr # sender THEN PotFailed(PotErr("Unauthorized"))
    ELSE LET msg == from_binary(payload)
         IN  IF ~msg.ok THEN PotFailed(PotErr(msg.err))
             ELSE receive_send(msg.val, amount, sender)

\* ExecuteMsg of cw20-pot
CreatePotMsg(target_addr, threshold) ==
    [type |-> "create_pot", addr |-> target_addr, amount |-> 0,
     threshold |-> threshold, payload |-> None]
\* ExecuteMsg::Receive(Cw20ReceiveMsg { amount, msg, .. })
ReceiveMsg(amount, payload) ==
    [type |-> "receive", addr |-> "", amount |-> amount,
     threshold |-> 0, payload |-> payload]

pot_execute(sender, msg) ==
    CASE msg.type = "create_pot" ->
            execute_create_pot(sender, msg.addr, msg.threshold)
      [] msg.type = "receive" ->
            execute_receive(sender, msg.amount, msg.payload)

\* one message to cw20-pot, run to completion
PotRequest(sender, msg) ==
    /\ pot_reply = NoPotReply
    /\ \E out \in {pot_execute(sender, msg)} :
        /\ out.POT_SEQ <= MaxPots
        /\ CONFIG' = out.CONFIG
        /\ POT_SEQ' = out.POT_SEQ
        /\ POTS' = out.POTS
        /\ pot_reply' = [sender |-> sender, msg |-> msg, resp |-> out.resp]
        /\ UNCHANGED rps_vars
        /\ UNCHANGED option_vars

\* the contract right after a successful instantiate by "creator"
InitPot ==
    /\ RpsAbsent
    /\ OptionAbsent
    /\ \E admin \in {None, Some("someone"), Some(InvalidAddr)},
          cw20_addr \in {"elona_musk", "creator", InvalidAddr} :
        \E out \in {pot_instantiate("creator", admin, cw20_addr)} :
            /\ out.resp.status = "Ok"
            /\ CONFIG = out.CONFIG
            /\ POT_SEQ = out.POT_SEQ
            /\ POTS = out.POTS
            /\ ledger = << >>
            /\ pot_reply = [sender |-> "creator",
                            msg |-> [type |-> "instantiate",
                                     addr |-> cw20_addr, amount |-> 0,
                                     threshold |-> 0, payload |-> admin],
                            resp |-> out.resp]

CreatePot ==
    \E sender \in ValidAddrs, target_addr \in TargetAddrs,
       threshold \in Thresholds :
        /\ PotRequest(sender, CreatePotMsg(target_addr, threshold))
        /\ UNCHANGED ledger

Receive ==
    \E sender \in ValidAddrs, amount \in Amounts,
       payload \in {None} \cup {Some(id) : id \in 0 .. MaxPots} :
        /\ PotRequest(sender, ReceiveMsg(amount, payload))
        /\ UNCHANGED ledger

\* the response reaches the caller; the next message can run
PotDeliver ==
    /\ pot_reply # NoPotReply
    /\ pot_reply' = NoPotReply
    /\ UNCHANGED <<CONFIG, POT_SEQ, POTS, ledger>>
    /\ UNCHANGED rps_vars
    /\ UNCHANGED option_vars

NextPot ==
    \/ CreatePot
    \/ Receive
    \/ PotDeliver

SpecPot == InitPot /\ [][NextPot]_vars

(***************************************************************************)
(* cw20-pot with the books of the token contract: the same requests, and   *)
(* for each pot the sum of the amounts its receives reported and the sum   *)
(* of the amounts its Transfer messages asked for.                         *)
(***************************************************************************)
\* the amounts of the Transfer messages of a response, summed
RECURSIVE SumOfTransfers(_)
SumOfTransfers(messages) ==
    IF messages = <<>> THEN 0
    ELSE messages[1].amount + SumOfTransfers(Tail(messages))

\* a sum kept exactly up to Uint128Max; above it, only that it is above
AtMostOver(n) == IF n > Uint128Max THEN Uint128Max + 1 ELSE n

\* the books after a request: a created pot starts at nothing received and
\* nothing transferred; an accepted receive adds its amount and its
\* Transfer messages to the books of the pot it names
Booked(books, msg, resp, seq) ==
    IF resp.status # "Ok" THEN books
    ELSE IF msg.type = "create_pot"
    THEN [id \in DOMAIN books \cup {seq} |->
             IF id = seq THEN [received |-> 0, transferred |-> 0]
             ELSE books[id]]
    ELSE [books EXCEPT
            ![Unwrap(msg.payload)] =
                [received |-> AtMostOver(@.received + msg.amount),
                 transferred |->
                     AtMostOver(@.transferred
                                  + SumOfTransfers(resp.messages))]]

BookedRequest(sender, msg) ==
    /\ PotRequest(sender, msg)
    /\ ledger' = Booked(ledger, msg, pot_reply'.resp, POT_SEQ')

BookedCreatePot ==
    \E sender \in ValidAddrs, target_addr \in TargetAddrs,
       threshold \in Thresholds :
        BookedRequest(sender, CreatePotMsg(target_addr, threshold))

BookedReceive ==
    \E sender \in ValidAddrs, amount \in Amounts,
       payload \in {None} \cup {Some(id) : id \in 0 .. MaxPots} :
        BookedRequest(sender, ReceiveMsg(amount, payload))

NextPotBooked ==
    \/ BookedCreatePot
    \/ BookedReceive
    \/ PotDeliver

SpecPotBooked == InitPot /\ [][NextPotBooked]_vars

(***************************************************************************)
(* Vocabulary of the properties.                                           *)
(***************************************************************************)
IsOk(r) == r.resp.status = "Ok"
IsErr(r, e) == r.resp.status = "Err" /\ r.resp.error = e


\* resolve of the specification: get_result with opp_move present
resolve(host_move, opp_move) ==
    get_result([host |-> "creator", opponent |-> "someone",
                host_move |-> host_move, opp_move |-> Some(opp_move),
                result |-> None])

\* the standard rock-paper-scissors table
Beats(a, b) ==
    <<a, b>> \in {<<"Rock", "Scissors">>, <<"Scissors", "Paper">>,
                  <<"Paper", "Rock">>}
StandardResult(host_move, opp_move) ==
    IF host_move = opp_move THEN "Tie"
    ELSE IF Beats(host_move, opp_move) THEN "HostWins"
    ELSE "OpponentWins"

\* the result tags of the respond response
ResultTag(result) ==
    CASE result = "HostWins" -> "Host Wins"
      [] result = "OpponentWins" -> "Opponent Wins"
      [] result = "Tie" -> "Tie"

\* get_result against the standard table, on all 9 pairs of moves
ResolveTableIsStandard ==
    \A h \in GameMove, o \in GameMove :
        resolve(h, o) = Ok(StandardResult(h, o))

\* get_result on a pair of different moves against the swapped pair
ResolveTableAntiSymmetric ==
    \A a \in GameMove, b \in GameMove :
        a # b => (resolve(a, b) = Ok("HostWins")
                    <=> resolve(b, a) = Ok("OpponentWins"))

(***************************************************************************)
(* C1: a successful respond by O against H runs on an open match at (H,O)  *)
(* and returns the result tag of resolve(stored host_move, second_move),   *)
(* whatever else the store, the admin and the blacklist hold.              *)
(***************************************************************************)
RespondReturnsResolvedTag ==
    [][(reply'.msg.type = "respond" /\ IsOk(reply')) =>
         LET O == reply'.sender
             H == reply'.msg.addr
             m == reply'.msg.move
         IN  /\ <<H, O>> \in DOMAIN GAME
             /\ resolve(GAME[<<H, O>>].host_move, m).ok
             /\ reply'.resp.attributes =
                  << <<"method", "execute_respond">>,
                     <<"result",
                       ResultTag(resolve(GAME[<<H, O>>].host_move, m).val)>> >>
      ]_vars

\* a respond returned "Opponent Wins" while another match is open and an
\* admin is set
RespondReturnsResolvedTagWitness ==
    /\ reply.msg.type = "respond"
    /\ IsOk(reply)
    /\ reply.resp.attributes[2] = <<"result", "Opponent Wins">>
    /\ DOMAIN GAME # {}
    /\ IsSome(ADMIN)

(***************************************************************************)
(* C2: get_result with both moves present never fails and is the standard  *)
(* table, over all 9 pairs and in every record a respond resolves.         *)
(***************************************************************************)
ResolveIsStandardTable ==
    /\ ResolveTableIsStandard
    /\ (reply.msg.type = "respond" /\ IsOk(reply)) =>
          /\ IsSome(reply.updated)
          /\ IsSome(Unwrap(reply.updated).opp_move)
          /\ Unwrap(reply.updated).result =
               Some(StandardResult(Unwrap(reply.updated).host_move,
                                   Unwrap(Unwrap(reply.updated).opp_move)))

\* a respond resolved Paper against Rock as HostWins
ResolveIsStandardTableWitness ==
    /\ reply.msg.type = "respond"
    /\ IsOk(reply)
    /\ IsSome(reply.updated)
    /\ Unwrap(reply.updated).host_move = "Paper"
    /\ Unwrap(reply.updated).opp_move = Some("Rock")
    /\ Unwrap(reply.updated).result = Some("HostWins")

(***************************************************************************)
(* C3: resolve is anti-symmetric: for different moves a, b,                *)
(* resolve(a, b) = HostWins exactly when resolve(b, a) = OpponentWins;     *)
(* also for the moves of every record a respond resolves.                  *)
(***************************************************************************)
ResolveAntiSymmetric ==
    /\ ResolveTableAntiSymmetric
    /\ (reply.msg.type = "respond" /\ IsOk(reply) /\ IsSome(reply.updated)) =>
          LET g == Unwrap(reply.updated)
          IN  g.host_move # Unwrap(g.opp_move) =>
                (g.result = Some("HostWins")
                   <=> resolve(Unwrap(g.opp_move), g.host_move)
                         = Ok("OpponentWins"))

\* a respond resolved two different moves in the opponent's favour
ResolveAntiSymmetricWitness ==
    /\ reply.msg.type = "respond"
    /\ IsOk(reply)
    /\ IsSome(reply.updated)
    /\ Unwrap(reply.updated).host_move # Unwrap(Unwrap(reply.updated).opp_move)
    /\ Unwrap(reply.updated).result = Some("OpponentWins")

(***************************************************************************)
(* C4: after a successful start by H with opponent O and move m the store  *)
(* holds at (H,O) the match host=H, opponent=O, host_move=m, opp_move=None,*)
(* result=None.                                                            *)
(***************************************************************************)
StartStoresOpenMatch ==
    (reply.msg.type = "start_game" /\ IsOk(reply)) =>
        LET H == reply.sender
            O == reply.msg.addr
            m == reply.msg.move
        IN  /\ H \in ValidAddrs /\ O \in ValidAddrs /\ m \in GameMove
            /\ <<H, O>> \in DOMAIN GAME
            /\ GAME[<<H, O>>] = [host |-> H, opponent |-> O, host_move |-> m,
                                 opp_move |-> None, result |-> None]

\* a start against another identity succeeded next to an older open match
StartStoresOpenMatchWitness ==
    /\ reply.msg.type = "start_game"
    /\ IsOk(reply)
    /\ reply.sender # reply.msg.addr
    /\ Cardinality(DOMAIN GAME) = 2

(***************************************************************************)
(* C5: a successful respond on (H,O) deletes the record: afterwards no     *)
(* match is at (H,O) and query-by-host H does not list it; a respond on a  *)
(* key without a match fails with GameNotFound; and a key gets a match     *)
(* only by a successful start of H against O.  So between two successful   *)
(* responds on a key there is a start on that key.                         *)
(***************************************************************************)
ListsOpponent(games, O) == \E i \in 1..Len(games) : games[i].opponent = O

RespondDeletesMatch ==
    [][/\ (reply'.msg.type = "respond" /\ IsOk(reply')) =>
            \A H \in {reply'.msg.addr}, O \in {reply'.sender} :
                /\ <<H, O>> \in DOMAIN GAME
                /\ <<H, O>> \notin DOMAIN GAME'
                /\ get_game_by_host(H)'.ok
                /\ ~ListsOpponent(get_game_by_host(H)'.val, O)
       /\ (/\ reply'.msg.type = "respond"
           /\ reply'.msg.addr \in ValidAddrs
           /\ <<reply'.msg.addr, reply'.sender>> \notin DOMAIN GAME) =>
              IsErr(reply', "GameNotFound")
       /\ \A key \in DOMAIN GAME' \ DOMAIN GAME :
              /\ reply'.msg.type = "start_game"
              /\ IsOk(reply')
              /\ key = <<reply'.sender, reply'.msg.addr>>
      ]_vars

\* a respond succeeded and its key is gone while the host has another match
RespondDeletesMatchWitness ==
    /\ reply.msg.type = "respond"
    /\ IsOk(reply)
    /\ <<reply.msg.addr, reply.sender>> \notin DOMAIN GAME
    /\ \E k \in DOMAIN GAME : k[1] = reply.msg.addr

(***************************************************************************)
(* C6: a respond by O naming host H while no match is at (H,O), never      *)
(* created or already resolved, fails with GameNotFound and leaves the     *)
(* match store, the admin and the blacklist as they were.                  *)
(***************************************************************************)
RespondWithoutMatchFails ==
    [][(/\ reply'.msg.type = "respond"
        /\ reply'.msg.addr \in ValidAddrs
        /\ <<reply'.msg.addr, reply'.sender>> \notin DOMAIN GAME) =>
           /\ IsErr(reply', "GameNotFound")
           /\ GAME' = GAME
           /\ ADMIN' = ADMIN
           /\ HOOKS' = HOOKS
      ]_vars

\* a respond found no match at (H,O) although the reversed key (O,H) holds one
RespondWithoutMatchFailsWitness ==
    /\ reply.msg.type = "respond"
    /\ IsErr(reply, "GameNotFound")
    /\ reply.sender # reply.msg.addr
    /\ <<reply.msg.addr, reply.sender>> \notin DOMAIN GAME
    /\ <<reply.sender, reply.msg.addr>> \in DOMAIN GAME

(***************************************************************************)
(* C7: only the recorded opponent resolves a match: when H has an open     *)
(* match with O and an actor X # O without a match at (H,X) responds       *)
(* naming H, the respond fails with GameNotFound and the match at (H,O)    *)
(* stays as it was, with opp_move and result absent.                       *)
(***************************************************************************)
OnlyOpponentResolves ==
    [][\A key \in DOMAIN GAME :
         (/\ reply'.msg.type = "respond"
          /\ reply'.msg.addr = key[1]
          /\ reply'.sender # key[2]
          /\ <<key[1], reply'.sender>> \notin DOMAIN GAME) =>
             /\ IsErr(reply', "GameNotFound")
             /\ key \in DOMAIN GAME'
             /\ GAME'[key] = GAME[key]
             /\ GAME'[key].opp_move = None
             /\ GAME'[key].result = None
      ]_vars

\* a third identity's respond against a host with an open match was refused
OnlyOpponentResolvesWitness ==
    /\ reply.msg.type = "respond"
    /\ IsErr(reply, "GameNotFound")
    /\ reply.sender # reply.msg.addr
    /\ \E key \in DOMAIN GAME :
          /\ key[1] = reply.msg.addr
          /\ key[2] # reply.sender
          /\ key[2] # key[1]

(***************************************************************************)
(* C8, as stated: a start by an identity that is in the blacklist always   *)
(* fails with BlacklistedAddress carrying that identity, and leaves the    *)
(* match store unchanged.                                                  *)
(***************************************************************************)
BlacklistedStartAlwaysBlacklistedAddress ==
    [][(/\ reply'.msg.type = "start_game"
        /\ Contains(HooksOf(HOOKS), reply'.sender)) =>
           /\ IsErr(reply', "BlacklistedAddress")
           /\ reply'.resp.addr = reply'.sender
           /\ GAME' = GAME
      ]_vars

(***************************************************************************)
(* C8, amended: a start by an identity that is in the blacklist always     *)
(* fails and leaves the match store unchanged; it fails with               *)
(* BlacklistedAddress carrying that identity when the opponent string is a *)
(* valid identity, and with the validation error when it is not.           *)
(***************************************************************************)
BlacklistedStartFails ==
    [][(/\ reply'.msg.type = "start_game"
        /\ Contains(HooksOf(HOOKS), reply'.sender)) =>
           /\ GAME' = GAME
           /\ IF reply'.msg.addr \in ValidAddrs
              THEN /\ IsErr(reply', "BlacklistedAddress")
                   /\ reply'.resp.addr = reply'.sender
              ELSE IsErr(reply', "Std(GenericErr)")
      ]_vars

\* a blacklisted identity's start was refused while a match of its own is open
BlacklistedStartFailsWitness ==
    /\ reply.msg.type = "start_game"
    /\ IsErr(reply, "BlacklistedAddress")
    /\ reply.resp.addr = reply.sender
    /\ Contains(HooksOf(HOOKS), reply.sender)
    /\ <<reply.sender, reply.msg.addr>> \in DOMAIN GAME

(***************************************************************************)
(* C9: a start with a valid opponent succeeds exactly when the caller is   *)
(* not in the blacklist at that moment; a successful remove takes the      *)
(* identity out of the blacklist, so it can start matches again.           *)
(***************************************************************************)
StartSucceedsIffNotBlacklisted ==
    [][/\ (reply'.msg.type = "start_game" /\ reply'.msg.addr \in ValidAddrs) =>
            /\ IsOk(reply') <=> ~Contains(HooksOf(HOOKS), reply'.sender)
            /\ IsOk(reply') \/ IsErr(reply', "BlacklistedAddress")
       /\ (reply'.msg.type = "remove_hook" /\ IsOk(reply')) =>
            /\ Contains(HooksOf(HOOKS), reply'.msg.addr)
            /\ ~Contains(HooksOf(HOOKS'), reply'.msg.addr)
      ]_vars

\* a start succeeded after the blacklist was filled and emptied again
StartSucceedsIffNotBlacklistedWitness ==
    /\ reply.msg.type = "start_game"
    /\ IsOk(reply)
    /\ HOOKS = Some(<<>>)

(***************************************************************************)
(* C10: the blacklist is consulted only by a start: adding an identity     *)
(* changes no match record, and a respond by O naming H with a match open  *)
(* at (H,O) succeeds and resolves it whether or not H or O is blacklisted. *)
(***************************************************************************)
BlacklistOnlyGatesStart ==
    [][/\ (reply'.msg.type = "add_hook" /\ IsOk(reply')) =>
            /\ GAME' = GAME
            /\ Contains(HooksOf(HOOKS'), reply'.msg.addr)
       /\ (/\ reply'.msg.type = "respond"
           /\ <<reply'.msg.addr, reply'.sender>> \in DOMAIN GAME) =>
              /\ IsOk(reply')
              /\ <<reply'.msg.addr, reply'.sender>> \notin DOMAIN GAME'
      ]_vars

\* a respond resolved a match whose host is blacklisted
BlacklistOnlyGatesStartWitness ==
    /\ reply.msg.type = "respond"
    /\ IsOk(reply)
    /\ reply.sender # reply.msg.addr
    /\ Contains(HooksOf(HOOKS), reply.msg.addr)

(***************************************************************************)
(* Vocabulary of the query properties.                                     *)
(***************************************************************************)
\* identities in ascending order: strings compare byte by byte
IdentityLess(a, b) == BytesLess(AddrBytes(a), AddrBytes(b))

\* the open matches of host H, as the set of their keys
KeysOfHost(H) == {k \in DOMAIN GAME : k[1] = H}

\* the record of a match just opened
OpenMatch(H, O, m) ==
    [host |-> H, opponent |-> O, host_move |-> m,
     opp_move |-> None, result |-> None]

(***************************************************************************)
(* C11: query-by-host H returns exactly the open matches whose host is H,  *)
(* one per opponent and none of another host, in ascending order of the    *)
(* opponent identity; after a start by H against O2 next to an open match  *)
(* of H against another O1 it returns exactly those two records.  A query  *)
(* runs between two messages, on the storage the last message left: every  *)
(* such storage is checked, for every H.                                   *)
(***************************************************************************)
QueryByHostListsOpenMatches ==
    /\ reply = NoReply =>
          \A H \in ValidAddrs :
              \A r \in {get_game_by_host(H)}, keys \in {KeysOfHost(H)} :
                  /\ r.ok
                  /\ Len(r.val) = Cardinality(keys)
                  /\ \A k \in keys :
                        \E i \in 1..Len(r.val) : r.val[i] = GAME[k]
                  /\ \A i \in 1..Len(r.val) :
                        /\ r.val[i].host = H
                        /\ <<H, r.val[i].opponent>> \in keys
                        /\ r.val[i] = GAME[<<H, r.val[i].opponent>>]
                  /\ \A i \in 1..Len(r.val), j \in 1..Len(r.val) :
                        i < j => IdentityLess(r.val[i].opponent,
                                              r.val[j].opponent)
    /\ (reply.msg.type = "start_game" /\ IsOk(reply)) =>
          LET H == reply.sender
              O2 == reply.msg.addr
          IN  \A O1 \in ValidAddrs \ {O2} :
                  KeysOfHost(H) = {<<H, O1>>, <<H, O2>>} =>
                      LET first == IF IdentityLess(O1, O2) THEN O1 ELSE O2
                          second == IF IdentityLess(O1, O2) THEN O2 ELSE O1
                          r == get_game_by_host(H)
                      IN  /\ r.ok
                          /\ r.val = <<GAME[<<H, first>>], GAME[<<H, second>>]>>
                          /\ GAME[<<H, O2>>] = OpenMatch(H, O2, reply.msg.move)
                          /\ GAME[<<H, O1>>].opponent = O1
                          /\ GAME[<<H, O1>>].opp_move = None

\* a host's second start, against an opponent that sorts before the first
\* one, while the query lists both
QueryByHostListsOpenMatchesWitness ==
    /\ reply.msg.type = "start_game"
    /\ IsOk(reply)
    /\ get_game_by_host(reply.sender).ok
    /\ Len(get_game_by_host(reply.sender).val) = 2
    /\ get_game_by_host(reply.sender).val[1].opponent = reply.msg.addr
    /\ get_game_by_host(reply.sender).val[2].opponent # reply.msg.addr

(***************************************************************************)
(* Vocabulary of C12.                                                      *)
(***************************************************************************)
\* the open matches whose opponent field is O, as the set of their keys
KeysOfOpponent(O) == {k \in DOMAIN GAME : GAME[k].opponent = O}

\* what query-by-opponent O returns, but for the order of the records:
\* exactly the open matches whose opponent field is O, each once, whatever
\* their host, and no match against another opponent
ListsMatchesOfOpponent(r, O) ==
    /\ r.ok
    /\ \A keys \in {KeysOfOpponent(O)} :
          /\ Len(r.val) = Cardinality(keys)
          /\ \A k \in keys : \E i \in 1..Len(r.val) : r.val[i] = GAME[k]
    /\ \A i \in 1..Len(r.val) :
          /\ r.val[i].opponent = O
          /\ <<r.val[i].host, O>> \in DOMAIN GAME
          /\ r.val[i] = GAME[<<r.val[i].host, O>>]

\* hosts in the order of the stored keys: a shorter identity first, and
\* identities of one length byte by byte
StoredHostLess(a, b) ==
    \/ Len(AddrBytes(a)) < Len(AddrBytes(b))
    \/ /\ Len(AddrBytes(a)) = Len(AddrBytes(b))
       /\ IdentityLess(a, b)

(***************************************************************************)
(* C12, as stated: query-by-opponent O returns exactly the open matches    *)
(* whose opponent field is O, across all hosts, in ascending order of the  *)
(* key (host, opponent), a pair of identities.  A query runs between two   *)
(* messages, on the storage the last message left.                         *)
(***************************************************************************)
QueryByOpponentInIdentityOrder ==
    reply = NoReply => \A O \in ValidAddrs :
        \A r \in {get_game_by_opponent(O)} :
            /\ ListsMatchesOfOpponent(r, O)
            /\ \A i \in 1..Len(r.val), j \in 1..Len(r.val) :
                  i < j => IdentityLess(r.val[i].host, r.val[j].host)

(***************************************************************************)
(* C12, amended: query-by-opponent O returns exactly the open matches      *)
(* whose opponent field is O, across all hosts and without the matches of  *)
(* those hosts against other opponents, in ascending order of the stored   *)
(* keys: a shorter host identity before a longer one, hosts of one length  *)
(* in ascending identity order.  A query runs between two messages, on the *)
(* storage the last message left: every such storage is checked.           *)
(***************************************************************************)
QueryByOpponentInStoredKeyOrder ==
    reply = NoReply => \A O \in ValidAddrs :
        \A r \in {get_game_by_opponent(O)} :
            /\ ListsMatchesOfOpponent(r, O)
            /\ \A i \in 1..Len(r.val), j \in 1..Len(r.val) :
                  i < j => StoredHostLess(r.val[i].host, r.val[j].host)

\* two hosts target one opponent and the query lists the shorter host first
\* although its identity is the greater one
QueryByOpponentInStoredKeyOrderWitness ==
    \E O \in ValidAddrs :
        /\ reply = NoReply
        /\ get_game_by_opponent(O).ok
        /\ Len(get_game_by_opponent(O).val) = 2
        /\ get_game_by_opponent(O).val[1].host = "someone"
        /\ get_game_by_opponent(O).val[2].host = "elona_musk"
        /\ IdentityLess("elona_musk", "someone")

(***************************************************************************)
(* C13, as stated: an admin transfer by an identity that is not the        *)
(* current admin fails with Unauthorized and leaves the admin unchanged;   *)
(* by the current admin, to an identity, it succeeds and sets the admin to *)
(* the new identity, which alone passes the admin check from then on.      *)
(***************************************************************************)
NonAdminTransferUnauthorized ==
    [][reply'.msg.type = "update_admin" =>
         IF ADMIN # Some(reply'.sender)
         THEN /\ IsErr(reply', "Unauthorized")
              /\ ADMIN' = ADMIN
         ELSE reply'.msg.addr \in ValidAddrs =>
                 \A N \in {reply'.msg.addr} :
                     /\ IsOk(reply')
                     /\ ADMIN' = Some(N)
                     /\ is_admin(N)'
                     /\ \A a \in ValidAddrs \ {N} : ~is_admin(a)'
      ]_vars

(***************************************************************************)
(* C13, amended: an admin transfer by an identity that is not the current  *)
(* admin fails and leaves the admin unchanged: with the admin controller's *)
(* NotAdmin error when the new admin string is a valid identity, with the  *)
(* validation error when it is not.  A transfer by the current admin to a  *)
(* valid identity succeeds and sets the admin to it: from the next request *)
(* on the new admin passes the admin check and no other identity does, the *)
(* old admin included unless it named itself.  A transfer by the admin to  *)
(* a malformed string fails with the validation error and changes nothing. *)
(***************************************************************************)
AdminTransferOnlyByAdmin ==
    [][reply'.msg.type = "update_admin" =>
         IF reply'.msg.addr \notin ValidAddrs
         THEN /\ IsErr(reply', "Std(GenericErr)")
              /\ ADMIN' = ADMIN
         ELSE IF ADMIN # Some(reply'.sender)
         THEN /\ IsErr(reply', "Admin(NotAdmin)")
              /\ ADMIN' = ADMIN
         ELSE \A N \in {reply'.msg.addr} :
                  /\ IsOk(reply')
                  /\ ADMIN' = Some(N)
                  /\ query_admin' = Some(N)
                  /\ is_admin(N)'
                  /\ \A a \in ValidAddrs \ {N} : ~is_admin(a)'
      ]_vars

\* an identity that is not the admin asked for the admin itself and was
\* refused with NotAdmin, after the admin had edited the blacklist
AdminTransferOnlyByAdminWitness ==
    /\ reply.msg.type = "update_admin"
    /\ IsErr(reply, "Admin(NotAdmin)")
    /\ reply.msg.addr = reply.sender
    /\ IsSome(ADMIN)
    /\ Unwrap(ADMIN) # reply.sender
    /\ IsSome(HOOKS)

(***************************************************************************)
(* C14, as stated: an add-to-blacklist or remove-from-blacklist request by *)
(* an identity that is not the current admin fails with Unauthorized and   *)
(* leaves the blacklist, the admin and the match store unchanged.          *)
(***************************************************************************)
NonAdminBlacklistEditUnauthorized ==
    [][(/\ reply'.msg.type \in {"add_hook", "remove_hook"}
        /\ ADMIN # Some(reply'.sender)) =>
           /\ IsErr(reply', "Unauthorized")
           /\ HOOKS' = HOOKS
           /\ ADMIN' = ADMIN
           /\ GAME' = GAME
      ]_vars

(***************************************************************************)
(* C14, amended: an add-to-blacklist or remove-from-blacklist request by   *)
(* an identity that is not the current admin fails and leaves the          *)
(* blacklist, the admin and the match store unchanged; it fails with the   *)
(* hook controller's NotAdmin error when the target string is a valid      *)
(* identity, and with the validation error when it is not.                 *)
(***************************************************************************)
NonAdminBlacklistEditFails ==
    [][(/\ reply'.msg.type \in {"add_hook", "remove_hook"}
        /\ ADMIN # Some(reply'.sender)) =>
           /\ IF reply'.msg.addr \in ValidAddrs
              THEN IsErr(reply', "Hook(Admin(NotAdmin))")
              ELSE IsErr(reply', "Std(GenericErr)")
           /\ HOOKS' = HOOKS
           /\ ADMIN' = ADMIN
           /\ GAME' = GAME
           /\ STATE_ITEM' = STATE_ITEM
      ]_vars

\* a blacklisted identity that is not the admin asked to be taken off the
\* blacklist and was refused, while a match is open
NonAdminBlacklistEditFailsWitness ==
    /\ reply.msg.type = "remove_hook"
    /\ IsErr(reply, "Hook(Admin(NotAdmin))")
    /\ reply.msg.addr = reply.sender
    /\ Contains(HooksOf(HOOKS), reply.sender)
    /\ IsSome(ADMIN)
    /\ DOMAIN GAME # {}

(***************************************************************************)
(* C15, as stated: blacklist edits by the admin are idempotent: adding a   *)
(* target that is already blacklisted succeeds and leaves the blacklist    *)
(* unchanged, and removing a target that is not blacklisted succeeds and   *)
(* leaves the blacklist unchanged.                                         *)
(***************************************************************************)
BlacklistEditsIdempotent ==
    [][/\ (/\ reply'.msg.type = "add_hook"
           /\ ADMIN = Some(reply'.sender)
           /\ Contains(HooksOf(HOOKS), reply'.msg.addr)) =>
              /\ IsOk(reply')
              /\ HooksOf(HOOKS') = HooksOf(HOOKS)
       /\ (/\ reply'.msg.type = "remove_hook"
           /\ ADMIN = Some(reply'.sender)
           /\ reply'.msg.addr \in ValidAddrs
           /\ ~Contains(HooksOf(HOOKS), reply'.msg.addr)) =>
              /\ IsOk(reply')
              /\ HooksOf(HOOKS') = HooksOf(HOOKS)
      ]_vars

(***************************************************************************)
(* C15, amended: a repeated blacklist edit by the admin is refused and     *)
(* changes nothing: adding a target that is already blacklisted fails with *)
(* HookAlreadyRegistered, removing a target that is not blacklisted fails  *)
(* with HookNotRegistered, or with the store's not-found error while the   *)
(* blacklist has never been written; the blacklist stays as it was.        *)
(***************************************************************************)
RepeatedBlacklistEditRefused ==
    [][/\ (/\ reply'.msg.type = "add_hook"
           /\ ADMIN = Some(reply'.sender)
           /\ Contains(HooksOf(HOOKS), reply'.msg.addr)) =>
              /\ IsErr(reply', "Hook(HookAlreadyRegistered)")
              /\ HOOKS' = HOOKS
       /\ (/\ reply'.msg.type = "remove_hook"
           /\ ADMIN = Some(reply'.sender)
           /\ reply'.msg.addr \in ValidAddrs
           /\ ~Contains(HooksOf(HOOKS), reply'.msg.addr)) =>
              /\ IF IsSome(HOOKS)
                 THEN IsErr(reply', "Hook(HookNotRegistered)")
                 ELSE IsErr(reply', "Hook(Std(NotFound))")
              /\ HOOKS' = HOOKS
      ]_vars

\* the admin added a target a second time and was refused, next to another
\* blacklisted identity
RepeatedBlacklistEditRefusedWitness ==
    /\ reply.msg.type = "add_hook"
    /\ IsErr(reply, "Hook(HookAlreadyRegistered)")
    /\ ADMIN = Some(reply.sender)
    /\ Contains(HooksOf(HOOKS), reply.msg.addr)
    /\ Len(HooksOf(HOOKS)) = 2

(***************************************************************************)
(* Vocabulary of C16 and C17.                                              *)
(***************************************************************************)
\* the admin_address an instantiate message carried
AdminAddressOf(msg) == IF msg.addr = "" THEN None ELSE Some(msg.addr)

(***************************************************************************)
(* C16, as stated: instantiated with no admin, query-admin returns absent  *)
(* and every add-to-blacklist request, of the owner too, fails with        *)
(* Unauthorized; the blacklist stays empty and every start with a valid    *)
(* opponent succeeds.                                                      *)
(***************************************************************************)
NoAdminAddUnauthorized ==
    [][ADMIN = None =>
         /\ query_admin' = None
         /\ HooksOf(HOOKS') = <<>>
         /\ reply'.msg.type = "add_hook" => IsErr(reply', "Unauthorized")
         /\ (reply'.msg.type = "start_game" /\ reply'.msg.addr \in ValidAddrs)
               => IsOk(reply')
      ]_vars

(***************************************************************************)
(* C16, amended: instantiated with no admin, query-admin returns absent    *)
(* then and ever after, and every add-to-blacklist request, of the owner   *)
(* too, fails: with the hook controller's NotAdmin error when the target   *)
(* is a valid identity, with the validation error when it is not.  So the  *)
(* blacklist stays empty and every start with a valid opponent succeeds.   *)
(***************************************************************************)
NoAdminNoBlacklist ==
    [][/\ (reply.msg.type = "instantiate"
           /\ AdminAddressOf(reply.msg) = None) =>
              /\ query_admin = None
              /\ query_hooks = <<>>
       /\ ADMIN = None =>
            /\ query_admin' = None
            /\ HOOKS' = None
            /\ reply'.msg.type = "add_hook" =>
                  /\ IF reply'.msg.addr \in ValidAddrs
                     THEN IsErr(reply', "Hook(Admin(NotAdmin))")
                     ELSE IsErr(reply', "Std(GenericErr)")
            /\ (/\ reply'.msg.type = "start_game"
                /\ reply'.msg.addr \in ValidAddrs) =>
                   /\ IsOk(reply')
                   /\ <<reply'.sender, reply'.msg.addr>> \in DOMAIN GAME'
      ]_vars

\* without an admin the owner asked to blacklist an identity that has a
\* match open and was refused
NoAdminNoBlacklistWitness ==
    /\ ADMIN = None
    /\ reply.msg.type = "add_hook"
    /\ reply.sender = get_owner
    /\ IsErr(reply, "Hook(Admin(NotAdmin))")
    /\ HOOKS = None
    /\ \E k \in DOMAIN GAME : k[1] = reply.msg.addr

\* instantiate on every sender and admin_address
InstantiateSetsOwnerAndAdmin ==
    \A S \in ValidAddrs, A \in {None} \cup {Some(a) : a \in ValidAddrs} :
        /\ instantiate(S, A).STATE_ITEM.owner = S
        /\ instantiate(S, A).ADMIN = A

(***************************************************************************)
(* C17: after instantiate by sender S with admin_address A, absent or not, *)
(* query-admin returns A and query-owner returns S; query-owner returns    *)
(* the same S after every start, respond, admin transfer and blacklist     *)
(* request: the owner does not depend on the admin and never changes.      *)
(***************************************************************************)
OwnerNeverChanges ==
    [][/\ InstantiateSetsOwnerAndAdmin
       /\ reply.msg.type = "instantiate" =>
            /\ IsOk(reply)
            /\ query_admin = AdminAddressOf(reply.msg)
            /\ get_owner = reply.sender
       /\ get_owner' = get_owner
      ]_vars

\* the owner handed the admin to another identity and is still the owner
OwnerNeverChangesWitness ==
    /\ reply.msg.type = "update_admin"
    /\ IsOk(reply)
    /\ reply.sender = get_owner
    /\ query_admin # Some(get_owner)
    /\ IsSome(HOOKS)
    /\ DOMAIN GAME # {}

(***************************************************************************)
(* C18: the admin is never cleared implicitly: once it holds an identity   *)
(* it holds one in every later state, and it changes only by a successful  *)
(* transfer request of the identity that is the admin at that moment,      *)
(* never by a start, a respond or a blacklist edit.                        *)
(***************************************************************************)
AdminChangesOnlyByTransfer ==
    [][/\ IsSome(ADMIN) => IsSome(ADMIN')
       /\ ADMIN' # ADMIN =>
            /\ reply'.msg.type = "update_admin"
            /\ IsOk(reply')
            /\ ADMIN = Some(reply'.sender)
            /\ ADMIN' = Some(reply'.msg.addr)
       /\ reply'.msg.type \in {"start_game", "respond", "add_hook",
                               "remove_hook"} => ADMIN' = ADMIN
       /\ (reply'.msg.type = "update_admin" /\ ~IsOk(reply')) =>
             ADMIN' = ADMIN
      ]_vars

\* an admin that is not the owner handed the admin on to a third identity
AdminChangesOnlyByTransferWitness ==
    /\ reply.msg.type = "update_admin"
    /\ IsOk(reply)
    /\ reply.sender # get_owner
    /\ reply.msg.addr # get_owner
    /\ reply.msg.addr # reply.sender
    /\ ADMIN = Some(reply.msg.addr)

(***************************************************************************)
(* C19, as stated: a second start by the same host H against the same      *)
(* opponent O while a match is open at (H,O) succeeds and replaces the     *)
(* record: afterwards one record is at (H,O), with the second start's      *)
(* host_move and with opp_move and result absent.                          *)
(***************************************************************************)
SecondStartAlwaysReplaces ==
    [][(/\ reply'.msg.type = "start_game"
        /\ <<reply'.sender, reply'.msg.addr>> \in DOMAIN GAME) =>
           \A H \in {reply'.sender}, O \in {reply'.msg.addr} :
               /\ IsOk(reply')
               /\ DOMAIN GAME' = DOMAIN GAME
               /\ GAME'[<<H, O>>] = OpenMatch(H, O, reply'.msg.move)
      ]_vars

(***************************************************************************)
(* C19, amended: a second start by the same host H, not blacklisted at     *)
(* that moment, against the same opponent O while a match is open at (H,O) *)
(* succeeds and replaces the record: afterwards one record is at (H,O),    *)
(* with the second start's host_move and with opp_move and result absent,  *)
(* and every other match is as it was.  When H has been blacklisted since  *)
(* its first start, the second start fails with BlacklistedAddress and the *)
(* first record stays.                                                     *)
(***************************************************************************)
SecondStartReplaces ==
    [][(/\ reply'.msg.type = "start_game"
        /\ <<reply'.sender, reply'.msg.addr>> \in DOMAIN GAME) =>
           \A H \in {reply'.sender}, O \in {reply'.msg.addr} :
               IF Contains(HooksOf(HOOKS), H)
               THEN /\ IsErr(reply', "BlacklistedAddress")
                    /\ GAME' = GAME
               ELSE /\ IsOk(reply')
                    /\ DOMAIN GAME' = DOMAIN GAME
                    /\ GAME'[<<H, O>>] = OpenMatch(H, O, reply'.msg.move)
                    /\ \A k \in DOMAIN GAME \ {<<H, O>>} : GAME'[k] = GAME[k]
                    /\ reply'.replaced = Some(GAME[<<H, O>>])
      ]_vars

\* a start replaced an open match of the same host and opponent that
\* carried another move, next to a match of another host
SecondStartReplacesWitness ==
    /\ reply.msg.type = "start_game"
    /\ IsOk(reply)
    /\ IsSome(reply.replaced)
    /\ Unwrap(reply.replaced).host_move # reply.msg.move
    /\ GAME[<<reply.sender, reply.msg.addr>>].host_move = reply.msg.move
    /\ Cardinality(DOMAIN GAME) = 2

(***************************************************************************)
(* C20, as stated: the host's committed move is immutable: for every key   *)
(* (H,O), while the match is open the stored host_move, host and opponent  *)
(* never change, whatever requests are made by whatever identities.        *)
(***************************************************************************)
HostMoveNeverChanges ==
    [][\A key \in DOMAIN GAME :
          key \in DOMAIN GAME' =>
              /\ GAME'[key].host_move = GAME[key].host_move
              /\ GAME'[key].host = GAME[key].host
              /\ GAME'[key].opponent = GAME[key].opponent
      ]_vars

(***************************************************************************)
(* C20, amended: for every key (H,O), while the match is open its host and *)
(* opponent fields never change, and its host_move changes only by a       *)
(* further successful start of H itself against O, which replaces the      *)
(* record; no request of another identity, no respond and no admin or      *)
(* blacklist request changes it.  The match leaves the store only by a     *)
(* successful respond of O naming H, which resolves the host_move that was *)
(* stored.                                                                 *)
(***************************************************************************)
HostMoveChangesOnlyByOwnRestart ==
    [][\A key \in DOMAIN GAME :
          IF key \in DOMAIN GAME'
          THEN /\ GAME'[key].host = GAME[key].host
               /\ GAME'[key].opponent = GAME[key].opponent
               /\ GAME'[key].host = key[1]
               /\ GAME'[key].opponent = key[2]
               /\ GAME'[key].opp_move = None
               /\ GAME'[key].result = None
               /\ GAME'[key].host_move # GAME[key].host_move =>
                     /\ reply'.msg.type = "start_game"
                     /\ IsOk(reply')
                     /\ reply'.sender = key[1]
                     /\ reply'.msg.addr = key[2]
                     /\ GAME'[key].host_move = reply'.msg.move
          ELSE /\ reply'.msg.type = "respond"
               /\ IsOk(reply')
               /\ reply'.sender = key[2]
               /\ reply'.msg.addr = key[1]
               /\ IsSome(reply'.updated)
               /\ Unwrap(reply'.updated).host_move = GAME[key].host_move
               /\ Unwrap(reply'.updated).host = key[1]
               /\ Unwrap(reply'.updated).opponent = key[2]
      ]_vars

\* the opponent of an open match opened a match of its own against the
\* host, at the reversed key, and the host's match stays open beside it
HostMoveChangesOnlyByOwnRestartWitness ==
    /\ reply.msg.type = "start_game"
    /\ IsOk(reply)
    /\ ~IsSome(reply.replaced)
    /\ reply.sender # reply.msg.addr
    /\ <<reply.msg.addr, reply.sender>> \in DOMAIN GAME
    /\ GAME[<<reply.msg.addr, reply.sender>>].host_move # reply.msg.move

(***************************************************************************)
(* Vocabulary of C21 and C22.                                              *)
(***************************************************************************)
\* opp_move and result of a record: both absent, or both present with the
\* result that resolve gives for the two moves
MovesAndResultAgree(game) ==
    \/ /\ game.opp_move = None
       /\ game.result = None
    \/ /\ IsSome(game.opp_move)
       /\ IsSome(game.result)
       /\ resolve(game.host_move, Unwrap(game.opp_move)).ok
       /\ game.result =
            Some(resolve(game.host_move, Unwrap(game.opp_move)).val)

\* the store inside a respond, between its update and its remove: the
\* store the respond left, with the record it wrote back at its key
StoreInsideRespond ==
    save(GAME, <<reply.msg.addr, reply.sender>>, Unwrap(reply.updated))

(***************************************************************************)
(* C21: in every reachable state of the match store, the state inside a    *)
(* respond between the update and the remove included, each stored match   *)
(* has opp_move and result both absent or both present, and when present   *)
(* result = resolve(host_move, opp_move).                                  *)
(***************************************************************************)
OppMoveAndResultTogether ==
    /\ \A k \in DOMAIN GAME : MovesAndResultAgree(GAME[k])
    /\ IsSome(reply.updated) =>
          /\ reply.msg.type = "respond"
          /\ IsSome(Unwrap(reply.updated).opp_move)
          /\ \A k \in DOMAIN StoreInsideRespond :
                MovesAndResultAgree(StoreInsideRespond[k])

\* inside a respond the store held a record with both fields present, a
\* win of the host, beside an open match with both absent
OppMoveAndResultTogetherWitness ==
    /\ IsSome(reply.updated)
    /\ Unwrap(reply.updated).opp_move = Some("Scissors")
    /\ Unwrap(reply.updated).result = Some("HostWins")
    /\ Cardinality(DOMAIN StoreInsideRespond) = 2
    /\ \E k \in DOMAIN GAME : GAME[k].opp_move = None

(***************************************************************************)
(* Vocabulary of C22.                                                      *)
(***************************************************************************)
\* every record of a query result is open
AllOpen(r) ==
    /\ r.ok
    /\ \A i \in 1..Len(r.val) :
          /\ r.val[i].opp_move = None
          /\ r.val[i].result = None

(***************************************************************************)
(* C22: a resolved match never persists: between two requests, whether    *)
(* they completed or failed, every match in the store has opp_move and     *)
(* result absent, and no query returns a match with a move or a result     *)
(* filled in.                                                              *)
(***************************************************************************)
ResolvedMatchNeverPersists ==
    /\ \A k \in DOMAIN GAME :
          /\ GAME[k].opp_move = None
          /\ GAME[k].result = None
    /\ reply = NoReply =>
          \A a \in ValidAddrs :
              /\ AllOpen(get_game_by_host(a))
              /\ AllOpen(get_game_by_opponent(a))
    /\ (reply.msg.type = "respond" /\ IsOk(reply)) =>
          /\ IsSome(reply.updated)
          /\ \A k \in DOMAIN GAME : GAME[k] # Unwrap(reply.updated)

\* a respond resolved a match and only the open match at the reversed key
\* is left in the store
ResolvedMatchNeverPersistsWitness ==
    /\ reply.msg.type = "respond"
    /\ IsOk(reply)
    /\ reply.sender # reply.msg.addr
    /\ DOMAIN GAME = {<<reply.sender, reply.msg.addr>>}

(***************************************************************************)
(* Vocabulary of C23.                                                      *)
(***************************************************************************)
\* the record at a key, or its absence
RecordAt(store, k) == IF k \in DOMAIN store THEN Some(store[k]) ELSE None

(***************************************************************************)
(* C23: matches are independent records keyed by the ordered pair: a start *)
(* or a respond on key (H,O) leaves the record, or the absence of one, at  *)
(* every other key as it was: (H,O') for O' # O, (H',O) for H' # H, and    *)
(* the reversed key (O,H).                                                 *)
(***************************************************************************)
OtherKeysUntouched ==
    [][/\ reply'.msg.type = "start_game" =>
            \A k \in (ValidAddrs \X ValidAddrs)
                       \ {<<reply'.sender, reply'.msg.addr>>} :
                RecordAt(GAME', k) = RecordAt(GAME, k)
       /\ reply'.msg.type = "respond" =>
            \A k \in (ValidAddrs \X ValidAddrs)
                       \ {<<reply'.msg.addr, reply'.sender>>} :
                RecordAt(GAME', k) = RecordAt(GAME, k)
      ]_vars

\* a respond resolved the match at (H,O) while the match at the reversed
\* key (O,H), with another host move, stays open
OtherKeysUntouchedWitness ==
    /\ reply.msg.type = "respond"
    /\ IsOk(reply)
    /\ reply.sender # reply.msg.addr
    /\ <<reply.sender, reply.msg.addr>> \in DOMAIN GAME
    /\ GAME[<<reply.sender, reply.msg.addr>>].host_move
         # Unwrap(reply.updated).host_move

(***************************************************************************)
(* C24: a match that gets no response persists: an open match at (H,O)     *)
(* stays in the store across any requests and is removed only by a         *)
(* successful respond of O naming host H; no admin transfer, no blacklist  *)
(* edit and no start or respond on another key removes it.                 *)
(***************************************************************************)
OpenMatchPersists ==
    [][/\ \A key \in DOMAIN GAME \ DOMAIN GAME' :
            /\ reply'.msg.type = "respond"
            /\ IsOk(reply')
            /\ reply'.sender = key[2]
            /\ reply'.msg.addr = key[1]
       /\ reply'.msg.type \in {"update_admin", "add_hook", "remove_hook"} =>
            GAME' = GAME
       /\ reply'.msg.type = "start_game" => DOMAIN GAME \subseteq DOMAIN GAME'
       /\ (reply'.msg.type = "respond" /\ ~IsOk(reply')) => GAME' = GAME
       /\ reply' = NoReply => GAME' = GAME
      ]_vars

\* the admin blacklisted the host of an open match and the match is still
\* in the store
OpenMatchPersistsWitness ==
    /\ reply.msg.type = "add_hook"
    /\ IsOk(reply)
    /\ Contains(HooksOf(HOOKS), reply.msg.addr)
    /\ \E key \in DOMAIN GAME :
          /\ key[1] = reply.msg.addr
          /\ key[2] # key[1]

(***************************************************************************)
(* C25: every request completes fully or commits nothing: whenever a       *)
(* start, a respond, an admin transfer or a blacklist edit returns an      *)
(* error, whichever error it is, the match store, the admin, the blacklist *)
(* and the owner are what they were before the request; and no match is    *)
(* left in the store with opp_move or result written.                      *)
(***************************************************************************)
FailedRequestCommitsNothing ==
    [][/\ reply'.resp.status # "Ok" =>
            /\ reply'.msg.type \in {"start_game", "respond", "update_admin",
                                    "add_hook", "remove_hook"}
            /\ GAME' = GAME
            /\ ADMIN' = ADMIN
            /\ HOOKS' = HOOKS
            /\ STATE_ITEM' = STATE_ITEM
            /\ get_owner' = get_owner
       /\ \A k \in DOMAIN GAME' :
            /\ GAME'[k].opp_move = None
            /\ GAME'[k].result = None
      ]_vars

\* a start naming a malformed opponent was refused while a match is open
\* and the blacklist holds an identity
FailedRequestCommitsNothingWitness ==
    /\ reply.msg.type = "start_game"
    /\ IsErr(reply, "Std(GenericErr)")
    /\ reply.msg.addr = InvalidAddr
    /\ DOMAIN GAME # {}
    /\ Len(HooksOf(HOOKS)) = 1

(***************************************************************************)
(* C26: UnexpectedGameResult never surfaces and the "Unexpected result"    *)
(* panic never fires: execute_respond sets opp_move before it calls        *)
(* get_result, so get_result answers for every pair of moves, and the      *)
(* record it matches on afterwards always carries a result.                *)
(***************************************************************************)
GetResultTotalOnFilled ==
    \A host_move \in GameMove : \A opp_move \in GameMove :
        get_result([host_move |-> host_move,
                    opp_move |-> Some(opp_move),
                    result |-> None]).ok

UnexpectedResultNeverSurfaces ==
    /\ GetResultTotalOnFilled
    /\ reply.resp.error # "UnexpectedGameResult"
    /\ reply.resp.status # "Panic"
    /\ (reply.msg.type = "respond" /\ reply.resp.status = "Ok") =>
          /\ IsSome(reply.updated)
          /\ IsSome(Unwrap(reply.updated).result)
          /\ \E text \in {"Host Wins", "Opponent Wins", "Tie"} :
                reply.resp.attributes[2] = <<"result", text>>

\* a respond that ended in a tie went through both branches
UnexpectedResultNeverSurfacesWitness ==
    /\ reply.msg.type = "respond"
    /\ reply.resp.status = "Ok"
    /\ reply.updated # None
    /\ Unwrap(reply.updated).result = Some("Tie")
    /\ reply.resp.attributes[2] = <<"result", "Tie">>

(***************************************************************************)
(* simple-option: vocabulary.  A step that keeps the height is a request;  *)
(* option_reply' holds that request and its response.                      *)
(***************************************************************************)
OptionRequestStep(type) ==
    /\ height' = height
    /\ option_reply'.msg.type = type
    /\ option_reply'.at = height

\* the request failed with this error, sent nothing, changed nothing
OptionRefused(r, e) ==
    /\ r.resp.status = "Err"
    /\ r.resp.error = e
    /\ r.resp.messages = <<>>
    /\ OPTION_STATE' = OPTION_STATE

(***************************************************************************)
(* C27: Execute on a stored option succeeds exactly when the sender is     *)
(* the current owner, the height is strictly below expires and the funds   *)
(* equal counter_offer; otherwise it fails with the first of Unauthorized, *)
(* Expired, NotEqualCounterOffer (carrying counter_offer) whose check      *)
(* fails, and the option is unchanged; on success the option is deleted    *)
(* and the response carries exactly two sends: counter_offer to the        *)
(* creator, then the collateral to the owner.                              *)
(***************************************************************************)
ExecuteChecksThenSettles ==
    [][(OptionRequestStep("execute") /\ IsSome(OPTION_STATE)) =>
         \A r \in {option_reply'} : \A state \in {Unwrap(OPTION_STATE)} :
            /\ r.resp.status = "Ok" <=>
                 /\ r.sender = state.owner
                 /\ height < state.expires
                 /\ r.funds = state.counter_offer
            /\ r.sender # state.owner => OptionRefused(r, "Unauthorized")
            /\ (r.sender = state.owner /\ height >= state.expires) =>
                 OptionRefused(r, "Expired")
            /\ (/\ r.sender = state.owner
                /\ height < state.expires
                /\ r.funds # state.counter_offer) =>
                 /\ OptionRefused(r, "NotEqualCounterOffer")
                 /\ r.resp.offer = state.counter_offer
            /\ r.resp.status = "Ok" =>
                 /\ OPTION_STATE' = None
                 /\ r.resp.messages =
                      << BankSend(state.creator, state.counter_offer),
                         BankSend(state.owner, state.collateral) >>
      ]_vars

\* an owner other than the creator executed: the creator was sent the
\* counter offer and the owner the collateral
ExecuteChecksThenSettlesWitness ==
    /\ option_reply.msg.type = "execute"
    /\ option_reply.resp.status = "Ok"
    /\ OPTION_STATE = None
    /\ option_reply.sender = "someone"
    /\ option_reply.funds = coins(40, "ETH")
    /\ option_reply.resp.messages =
         << BankSend("creator", coins(40, "ETH")),
            BankSend("someone", coins(1, "BTC")) >>

TransferByOwnerToValidRecipient ==
    [][/\ (OptionRequestStep("transfer") /\ IsSome(OPTION_STATE)) =>
            \A r \in {option_reply'} : \A state \in {Unwrap(OPTION_STATE)} :
               /\ r.sender # state.owner => OptionRefused(r, "Unauthorized")
               /\ (r.sender = state.owner /\ r.msg.addr \in ValidAddrs) =>
                    /\ r.resp.status = "Ok"
                    /\ r.resp.messages = <<>>
                    /\ OPTION_STATE' =
                         Some([creator |-> state.creator,
                               owner |-> r.msg.addr,
                               collateral |-> state.collateral,
                               counter_offer |-> state.counter_offer,
                               expires |-> state.expires])
               /\ (r.sender = state.owner /\ r.msg.addr \notin ValidAddrs) =>
                    OptionRefused(r, "Std(GenericErr)")
       /\ (OptionRequestStep("execute") /\ IsSome(OPTION_STATE)) =>
            \A r \in {option_reply'} : \A state \in {Unwrap(OPTION_STATE)} :
               r.sender # state.owner => OptionRefused(r, "Unauthorized")
      ]_vars

\* the creator, who was the first owner, transferred the option away and
\* is refused afterwards
TransferByOwnerToValidRecipientWitness ==
    /\ option_reply.msg.type \in {"transfer", "execute"}
    /\ option_reply.sender = "creator"
    /\ option_reply.resp.status = "Err"
    /\ option_reply.resp.error = "Unauthorized"
    /\ IsSome(OPTION_STATE)
    /\ Unwrap(OPTION_STATE).creator = "creator"
    /\ Unwrap(OPTION_STATE).owner = "someone"

\* C29 as stated: every Transfer by the current owner sets owner to the
\* recipient
TransferByOwnerAlwaysSetsOwner ==
    [][(/\ OptionRequestStep("transfer")
        /\ IsSome(OPTION_STATE)
        /\ option_reply'.sender = Unwrap(OPTION_STATE).owner) =>
          /\ option_reply'.resp.status = "Ok"
          /\ IsSome(OPTION_STATE')
          /\ Unwrap(OPTION_STATE').owner = option_reply'.msg.addr
      ]_vars

(***************************************************************************)
(* cw20-pot: vocabulary.                                                   *)
(***************************************************************************)
\* this step is a Receive from the token contract naming an existing pot
ReceiveForExistingPot ==
    /\ pot_reply = NoPotReply
    /\ pot_reply'.msg.type = "receive"
    /\ pot_reply'.sender = CONFIG.cw20_addr
    /\ IsSome(pot_reply'.msg.payload)
    /\ Unwrap(pot_reply'.msg.payload) \in DOMAIN POTS

SelfPlayIsPermitted ==
    [][/\ (/\ reply'.msg.type = "start_game"
           /\ reply'.msg.addr = reply'.sender) =>
            \A H \in {reply'.sender} :
               /\ IsOk(reply') <=> ~Contains(HooksOf(HOOKS), H)
               /\ IsOk(reply') =>
                    /\ <<H, H>> \in DOMAIN GAME'
                    /\ GAME'[<<H, H>>] = OpenMatch(H, H, reply'.msg.move)
               /\ ~IsOk(reply') =>
                    /\ IsErr(reply', "BlacklistedAddress")
                    /\ GAME' = GAME
       /\ (/\ reply'.msg.type = "respond"
           /\ reply'.msg.addr = reply'.sender) =>
            \A H \in {reply'.sender} :
               /\ IsOk(reply') <=> <<H, H>> \in DOMAIN GAME
               /\ IsOk(reply') =>
                    /\ <<H, H>> \notin DOMAIN GAME'
                    /\ reply'.resp.attributes[2] =
                         <<"result",
                           ResultTag(resolve(GAME[<<H, H>>].host_move,
                                             reply'.msg.move).val)>>
                    /\ Unwrap(reply'.updated).result =
                         Some(resolve(GAME[<<H, H>>].host_move,
                                      reply'.msg.move).val)
               /\ ~IsOk(reply') =>
                    /\ IsErr(reply', "GameNotFound")
                    /\ GAME' = GAME
      ]_vars

\* an identity answered its own Rock with Scissors: the host wins, the
\* match at (H,H) is gone
SelfPlayIsPermittedWitness ==
    /\ reply.msg.type = "respond"
    /\ IsOk(reply)
    /\ reply.msg.addr = reply.sender
    /\ reply.msg.move = "Scissors"
    /\ IsSome(reply.updated)
    /\ Unwrap(reply.updated).host = reply.sender
    /\ Unwrap(reply.updated).opponent = reply.sender
    /\ Unwrap(reply.updated).host_move = "Rock"
    /\ reply.resp.attributes[2] = <<"result", "Host Wins">>
    /\ <<reply.sender, reply.sender>> \notin DOMAIN GAME

\* C31 as stated: every start naming the caller as opponent succeeds
SelfStartAlwaysSucceeds ==
    (reply.msg.type = "start_game" /\ reply.msg.addr = reply.sender) =>
        IsOk(reply)

(***************************************************************************)
(* C32: a contract instantiated with no admin never gets one.  While no    *)
(* admin is stored, every admin transfer fails, whoever sends it, the      *)
(* owner included, so no admin is stored after any step; every blacklist   *)
(* insert and remove fails too, and the blacklist stays as never written.  *)
(***************************************************************************)
NoAdminForever ==
    [][ADMIN = None =>
         /\ ADMIN' = None
         /\ HOOKS = None
         /\ HOOKS' = None
         /\ reply'.msg.type \in {"update_admin", "add_hook", "remove_hook"} =>
              /\ ~IsOk(reply')
              /\ reply'.msg.addr \in ValidAddrs =>
                   IF reply'.msg.type = "update_admin"
                   THEN IsErr(reply', "Admin(NotAdmin)")
                   ELSE IsErr(reply', "Hook(Admin(NotAdmin))")
      ]_vars

\* with no admin stored, the owner's admin transfer was refused while a
\* match is open
NoAdminForeverWitness ==
    /\ ADMIN = None
    /\ reply.msg.type = "update_admin"
    /\ reply.sender = get_owner
    /\ reply.msg.addr = reply.sender
    /\ IsErr(reply, "Admin(NotAdmin)")
    /\ DOMAIN GAME # {}

(***************************************************************************)
(* C33: for each host move h, resolve(h, .) maps the three moves one to    *)
(* one onto HostWins, OpponentWins, Tie.  Hence for every open match at    *)
(* (H,O) and each of the three results exactly one second_move makes the   *)
(* respond of O naming H return that result; and query-by-host H shows O   *)
(* the host_move beforehand (both stated between two requests).            *)
(***************************************************************************)
ResolveIsBijection ==
    \A h \in GameMove :
        /\ \A o \in GameMove : resolve(h, o).ok
        /\ {resolve(h, o).val : o \in GameMove} = GameResult
        /\ \A o1 \in GameMove, o2 \in GameMove :
              resolve(h, o1) = resolve(h, o2) => o1 = o2

\* the second moves with which O's respond naming H returns this result
MovesReturning(H, O, result) ==
    {m \in GameMove :
        \A out \in {execute_respond(O, H, m)} :
            /\ out.resp.status = "Ok"
            /\ out.resp.attributes[2] = <<"result", ResultTag(result)>>
            /\ out.updated = Some([GAME[<<H, O>>] EXCEPT
                                     !.opp_move = Some(m),
                                     !.result = Some(result)])}

ResponderDeterminesOutcome ==
    /\ ResolveIsBijection
    /\ reply = NoReply =>
          \A key \in DOMAIN GAME :
             /\ \A result \in GameResult :
                   Cardinality(MovesReturning(key[1], key[2], result)) = 1
             /\ \A listed \in {get_game_by_host(key[1])} :
                   /\ listed.ok
                   /\ \E i \in 1..Len(listed.val) :
                         /\ listed.val[i].opponent = key[2]
                         /\ listed.val[i].host_move = GAME[key].host_move

\* the opponent answered an open Paper with Scissors and won, while
\* another match of the same host is still open
ResponderDeterminesOutcomeWitness ==
    /\ reply.msg.type = "respond"
    /\ IsOk(reply)
    /\ Unwrap(reply.updated).host_move = "Paper"
    /\ reply.msg.move = "Scissors"
    /\ reply.resp.attributes[2] = <<"result", "Opponent Wins">>
    /\ \E key \in DOMAIN GAME : key[1] = reply.msg.addr

(***************************************************************************)
(* C34: the option is settled at most once.  While it is stored, at each   *)
(* height exactly one of Execute (by the owner with the counter offer) and *)
(* Burn (with no funds) succeeds: Execute below expires, Burn from expires *)
(* on.  A response carries sends only if it is a successful Execute or     *)
(* Burn on a stored option, and that request deletes the option; once the  *)
(* option is gone it stays gone and every Transfer, Execute and Burn fails *)
(* and carries no send.  So at most one response ever pays the collateral. *)
(***************************************************************************)
ExactlyOneSettlementOpen ==
    IsSome(OPTION_STATE) =>
        \A state \in {Unwrap(OPTION_STATE)} :
            \A executed \in {handle_execute(height, state.owner,
                                            state.counter_offer)} :
                \A burned \in {handle_burn(height, state.owner, <<>>)} :
                    /\ (executed.resp.status = "Ok") #
                         (burned.resp.status = "Ok")
                    /\ executed.resp.status = "Ok" <=> height < state.expires
                    /\ burned.resp.status = "Ok" <=> height >= state.expires

OptionSettledAtMostOnce ==
    [][/\ ExactlyOneSettlementOpen
       /\ OPTION_STATE = None =>
            /\ OPTION_STATE' = None
            /\ height' = height =>
                 /\ option_reply'.msg.type \in {"transfer", "execute", "burn"}
                 /\ option_reply'.resp.status = "Err"
                 /\ option_reply'.resp.error = "Std(NotFound)"
                 /\ option_reply'.resp.messages = <<>>
       /\ (height' = height /\ option_reply'.resp.messages # <<>>) =>
            /\ IsSome(OPTION_STATE)
            /\ OPTION_STATE' = None
            /\ option_reply'.resp.status = "Ok"
            /\ option_reply'.msg.type \in {"execute", "burn"}
       /\ (IsSome(OPTION_STATE) /\ OPTION_STATE' = None) =>
            /\ option_reply'.resp.status = "Ok"
            /\ option_reply'.msg.type \in {"execute", "burn"}
      ]_vars

\* the owner tried to execute again, with the counter offer and before
\* expiry, after the option was settled
OptionSettledAtMostOnceWitness ==
    /\ OPTION_STATE = None
    /\ option_reply.msg.type = "execute"
    /\ option_reply.funds = coins(40, "ETH")
    /\ option_reply.at = 0
    /\ option_reply.resp.status = "Err"
    /\ option_reply.resp.error = "Std(NotFound)"
    /\ option_reply.resp.messages = <<>>

(***************************************************************************)
(* C35: for every pot and every sequence of receives, the amounts of all   *)
(* the Transfer messages emitted for the pot sum to no more than the       *)
(* amounts the pot received.                                               *)
(***************************************************************************)
PayoutsWithinReceipts ==
    \A id \in DOMAIN ledger :
        ledger[id].transferred <= ledger[id].received

(***************************************************************************)
(* C36: the owner of cw20-pot is the admin named at instantiate if one was *)
(* named and is a valid identity, else the instantiating sender, and the   *)
(* config never changes.  CreatePot succeeds only for the owner and        *)
(* Receive only for the configured token contract; from any other sender   *)
(* either request fails with Unauthorized, whatever else it carries, and   *)
(* the pots, their collected totals and the pot counter are unchanged.     *)
(***************************************************************************)
OwnerAsInstantiated ==
    pot_reply.msg.type = "instantiate" =>
        /\ CONFIG.cw20_addr = pot_reply.msg.addr
        /\ CONFIG.owner =
             IF /\ IsSome(pot_reply.msg.payload)
                /\ Unwrap(pot_reply.msg.payload) \in ValidAddrs
             THEN Unwrap(pot_reply.msg.payload)
             ELSE pot_reply.sender

\* this request failed with Unauthorized and changed nothing
PotRefusedUnauthorized ==
    /\ pot_reply'.resp.status = "Err"
    /\ pot_reply'.resp.error = "Unauthorized"
    /\ pot_reply'.resp.messages = <<>>
    /\ POTS' = POTS
    /\ POT_SEQ' = POT_SEQ

OnlyOwnerCreatesOnlyTokenDeposits ==
    [][/\ OwnerAsInstantiated
       /\ CONFIG' = CONFIG
       /\ (pot_reply = NoPotReply /\ pot_reply'.msg.type = "create_pot") =>
            /\ pot_reply'.sender # CONFIG.owner => PotRefusedUnauthorized
            /\ pot_reply'.resp.status = "Ok" =>
                 pot_reply'.sender = CONFIG.owner
       /\ (pot_reply = NoPotReply /\ pot_reply'.msg.type = "receive") =>
            /\ pot_reply'.sender # CONFIG.cw20_addr => PotRefusedUnauthorized
            /\ pot_reply'.resp.status = "Ok" =>
                 pot_reply'.sender = CONFIG.cw20_addr
       /\ (POTS' # POTS \/ POT_SEQ' # POT_SEQ) =>
            /\ pot_reply'.resp.status = "Ok"
            /\ pot_reply'.sender =
                 IF pot_reply'.msg.type = "create_pot"
                 THEN CONFIG.owner ELSE CONFIG.cw20_addr
      ]_vars

\* with the admin "someone" as owner, the instantiating sender is refused
\* a CreatePot, malformed target and all, while a pot holds a deposit
OnlyOwnerCreatesOnlyTokenDepositsWitness ==
    /\ CONFIG.owner = "someone"
    /\ pot_reply.msg.type = "create_pot"
    /\ pot_reply.sender = "creator"
    /\ pot_reply.msg.addr = InvalidAddr
    /\ pot_reply.resp.status = "Err"
    /\ pot_reply.resp.error = "Unauthorized"
    /\ \E id \in DOMAIN POTS : POTS[id].collected > 0

====
